---- MODULE Spec2Model ----
(***************************************************************************)
(* Provider adapters and the Send/Retry orchestrator of the chat page.     *)
(* Texts (message contents, model ids, pricing keys) are sequences of      *)
(* one-character strings.  Prices are in thousandths of a dollar per       *)
(* million tokens, costs in 1e-9 dollars, so that the linear cost formula  *)
(* stays in the integers.                                                  *)
(***************************************************************************)
EXTENDS Integers, Sequences, FiniteSets, TLC

\* ------------------------------------------------------------------------
\* Bounds of the model
\* ------------------------------------------------------------------------
MaxRequests == 2

MaxReads == 2

MaxIds == 4

MaxSidebarOps == 1

MaxTokens == 2

MaxTextLen == 9

MaxAttachments == 2

MaxSaves == 3

MaxStoredIds == 2

MaxMessages == 3

MaxModelRequests == 2

MaxSplits == 2

MaxGroups == 1

\* ------------------------------------------------------------------------
\* Optional values (undefined / present)
\* ------------------------------------------------------------------------
None == <<>>

Some(v) == <<v>>

\* ------------------------------------------------------------------------
\* lib/storage: token and cost estimation
\* ------------------------------------------------------------------------
\* a division that rounds down
FloorDiv(n, d) == n \div d

CeilDiv(n, d) == (n + d - 1) \div d

estimateTokens(text, attachments) ==
  CeilDiv(Len(text), 4) + (IF attachments > 0 THEN attachments * 1000 ELSE 0)

\* a cost that subtracts the output cost
calculateCostDifference(inputTokens, outputTokens, inputPricePerMillion, outputPricePerMillion) ==
  inputTokens * inputPricePerMillion - outputTokens * outputPricePerMillion

calculateCost(inputTokens, outputTokens, inputPricePerMillion, outputPricePerMillion) ==
  inputTokens * inputPricePerMillion + outputTokens * outputPricePerMillion

\* ------------------------------------------------------------------------
\* String helpers used by the pricing lookups
\* ------------------------------------------------------------------------
UpperCase == <<"A","B","C","D","E","F","G","H","I","J","K","L","M",
               "N","O","P","Q","R","S","T","U","V","W","X","Y","Z">>

LowerCase == <<"a","b","c","d","e","f","g","h","i","j","k","l","m",
               "n","o","p","q","r","s","t","u","v","w","x","y","z">>

lowerChar(c) ==
  IF \E k \in 1..26 : UpperCase[k] = c
  THEN LowerCase[CHOOSE k \in 1..26 : UpperCase[k] = c]
  ELSE c

RECURSIVE toLowerCase(_)
toLowerCase(s) ==
  IF s = <<>> THEN <<>> ELSE <<lowerChar(Head(s))>> \o toLowerCase(Tail(s))

\* s.includes(sub)
includes(s, sub) ==
  \E i \in 0..(Len(s) - Len(sub)) :
     \A j \in 1..Len(sub) : s[i + j] = sub[j]

\* s.replace(pat, '') : removes the first occurrence of pat
replaceFirst(s, pat) ==
  IF includes(s, pat)
  THEN LET i == CHOOSE i \in 0..(Len(s) - Len(pat)) :
                  /\ \A j \in 1..Len(pat) : s[i + j] = pat[j]
                  /\ \A k \in 0..(i - 1) : \E j \in 1..Len(pat) : s[k + j] # pat[j]
       IN  SubSeq(s, 1, i) \o SubSeq(s, i + Len(pat) + 1, Len(s))
  ELSE s

\* ------------------------------------------------------------------------
\* Pricing tables, in declaration order
\* ------------------------------------------------------------------------
OPENAI_PRICING ==
  << [key |-> <<"g","p","t","-","4","o">>,
      input |-> 2500, output |-> 10000],
     [key |-> <<"g","p","t","-","4","o","-","m","i","n","i">>,
      input |-> 150, output |-> 600],
     [key |-> <<"g","p","t","-","4","-","t","u","r","b","o">>,
      input |-> 10000, output |-> 30000],
     [key |-> <<"g","p","t","-","4">>,
      input |-> 30000, output |-> 60000],
     [key |-> <<"g","p","t","-","3",".","5","-","t","u","r","b","o">>,
      input |-> 500, output |-> 1500],
     [key |-> <<"o","1">>,
      input |-> 15000, output |-> 60000],
     [key |-> <<"o","1","-","m","i","n","i">>,
      input |-> 3000, output |-> 12000],
     [key |-> <<"o","3","-","m","i","n","i">>,
      input |-> 1100, output |-> 4400] >>

XAI_PRICING ==
  << [key |-> <<"g","r","o","k","-","2">>,
      input |-> 2000, output |-> 10000],
     [key |-> <<"g","r","o","k","-","2","-","m","i","n","i">>,
      input |-> 200, output |-> 1000],
     [key |-> <<"g","r","o","k","-","b","e","t","a">>,
      input |-> 5000, output |-> 15000] >>

GROQ_PRICING ==
  << [key |-> <<"l","l","a","m","a","-","3",".","3","-","7","0","b">>,
      input |-> 590, output |-> 790],
     [key |-> <<"l","l","a","m","a","-","3",".","1","-","7","0","b">>,
      input |-> 590, output |-> 790],
     [key |-> <<"l","l","a","m","a","-","3",".","1","-","8","b">>,
      input |-> 50, output |-> 80],
     [key |-> <<"m","i","x","t","r","a","l","-","8","x","7","b">>,
      input |-> 240, output |-> 240],
     [key |-> <<"g","e","m","m","a","2","-","9","b">>,
      input |-> 200, output |-> 200] >>

GEMINI_PRICING ==
  << [key |-> <<"g","e","m","i","n","i","-","2",".","5","-","p","r","o">>,
      input |-> 1250, output |-> 10000],
     [key |-> <<"g","e","m","i","n","i","-","2",".","5","-","f","l","a","s","h">>,
      input |-> 150, output |-> 600],
     [key |-> <<"g","e","m","i","n","i","-","2",".","0","-","f","l","a","s","h">>,
      input |-> 100, output |-> 400],
     [key |-> <<"g","e","m","i","n","i","-","1",".","5","-","p","r","o">>,
      input |-> 1250, output |-> 5000],
     [key |-> <<"g","e","m","i","n","i","-","1",".","5","-","f","l","a","s","h">>,
      input |-> 75, output |-> 300],
     [key |-> <<"g","e","m","i","n","i","-","1",".","0","-","p","r","o">>,
      input |-> 500, output |-> 1500] >>

ANTHROPIC_PRICING ==
  << [key |-> <<"c","l","a","u","d","e","-","3","-","5","-","s","o","n","n","e","t">>,
      input |-> 3000, output |-> 15000],
     [key |-> <<"c","l","a","u","d","e","-","3","-","5","-","h","a","i","k","u">>,
      input |-> 1000, output |-> 5000],
     [key |-> <<"c","l","a","u","d","e","-","3","-","o","p","u","s">>,
      input |-> 15000, output |-> 75000],
     [key |-> <<"c","l","a","u","d","e","-","3","-","s","o","n","n","e","t">>,
      input |-> 3000, output |-> 15000],
     [key |-> <<"c","l","a","u","d","e","-","3","-","h","a","i","k","u">>,
      input |-> 250, output |-> 1250] >>

Providers == {"gemini", "anthropic", "openai", "xai", "groq", "openrouter"}

\* ------------------------------------------------------------------------
\* lib/providers: the registry
\* ------------------------------------------------------------------------
\* the own properties of the providerAdapters object
providerAdapters == [p \in Providers |-> [providerId |-> p]]

\* property names every object literal inherits from Object.prototype
ObjectPrototypeMembers ==
  {"constructor", "toString", "valueOf", "hasOwnProperty", "__proto__"}

\* providerAdapters[providerId]: an own property, an inherited one, or
\* undefined
propertyOf(providerId) ==
  IF providerId \in DOMAIN providerAdapters
  THEN Some(providerAdapters[providerId])
  ELSE IF providerId \in ObjectPrototypeMembers
       THEN Some([inherited |-> providerId])
       ELSE None

\* the outcome of getAdapter(providerId): the value returned, or the
\* error thrown
getAdapter(providerId) ==
  LET adapter == propertyOf(providerId)
  IN  IF adapter = None
      THEN [threw |-> TRUE, value |-> <<"Unknown provider: ", providerId>>]
      ELSE [threw |-> FALSE, value |-> adapter[1]]

\* a lookup in which the last matching entry wins
LastMatch(table, keys, modelId, default) ==
  LET lower == toLowerCase(modelId)
      hits == {i \in 1..Len(table) : includes(lower, keys[i])}
  IN  IF hits # {}
      THEN LET i == CHOOSE i \in hits : \A k \in hits : i >= k
           IN  [input |-> table[i].input, output |-> table[i].output]
      ELSE default

\* first table entry whose (transformed) key is contained in the model id;
\* keys[i] is the transformed key of table[i]
FirstMatch(table, keys, modelId, default) ==
  LET lower == toLowerCase(modelId)
      hits == {i \in 1..Len(table) : includes(lower, keys[i])}
  IN  IF hits # {}
      THEN LET i == CHOOSE i \in hits : \A k \in hits : i <= k
           IN  [input |-> table[i].input, output |-> table[i].output]
      ELSE default

openaiKey(k) == toLowerCase(k)

xaiKey(k) == toLowerCase(k)

groqKey(k) == toLowerCase(k)

geminiKey(k) == replaceFirst(toLowerCase(k), <<"g","e","m","i","n","i","-">>)

anthropicKey(k) == replaceFirst(k, <<"c","l","a","u","d","e","-">>)

openaiPricing(modelId) ==
  FirstMatch(OPENAI_PRICING,
             [i \in 1..Len(OPENAI_PRICING) |-> openaiKey(OPENAI_PRICING[i].key)],
             modelId, [input |-> 2500, output |-> 10000])

xaiPricing(modelId) ==
  FirstMatch(XAI_PRICING,
             [i \in 1..Len(XAI_PRICING) |-> xaiKey(XAI_PRICING[i].key)],
             modelId, [input |-> 2000, output |-> 10000])

\* a lookup that prices an unknown model at zero
groqPricingFreeDefault(modelId) ==
  FirstMatch(GROQ_PRICING,
             [i \in 1..Len(GROQ_PRICING) |-> groqKey(GROQ_PRICING[i].key)],
             modelId, [input |-> 0, output |-> 0])

groqPricing(modelId) ==
  FirstMatch(GROQ_PRICING,
             [i \in 1..Len(GROQ_PRICING) |-> groqKey(GROQ_PRICING[i].key)],
             modelId, [input |-> 100, output |-> 100])

geminiPricing(modelId) ==
  FirstMatch(GEMINI_PRICING,
             [i \in 1..Len(GEMINI_PRICING) |-> geminiKey(GEMINI_PRICING[i].key)],
             modelId, [input |-> 150, output |-> 600])

anthropicPricing(modelId) ==
  FirstMatch(ANTHROPIC_PRICING,
             [i \in 1..Len(ANTHROPIC_PRICING) |-> anthropicKey(ANTHROPIC_PRICING[i].key)],
             modelId, [input |-> 3000, output |-> 15000])

openrouterPricing(modelId) == [input |-> 1000, output |-> 2000]

getModelPricing(providerId, modelId) ==
  CASE providerId = "openai"     -> openaiPricing(modelId)
    [] providerId = "xai"        -> xaiPricing(modelId)
    [] providerId = "groq"       -> groqPricing(modelId)
    [] providerId = "gemini"     -> geminiPricing(modelId)
    [] providerId = "anthropic"  -> anthropicPricing(modelId)
    [] providerId = "openrouter" -> openrouterPricing(modelId)

\* the model selected for each provider
ModelOf(providerId) ==
  CASE providerId = "openai"     -> <<"g","p","t","-","4","o","-","m","i","n","i">>
    [] providerId = "xai"        -> <<"g","r","o","k","-","2">>
    [] providerId = "groq"       -> <<"l","l","a","m","a","-","3",".","1","-","8","b">>
    [] providerId = "gemini"     -> <<"g","e","m","m","a","-","3">>
    [] providerId = "anthropic"  -> <<"c","l","a","u","d","e","-","3","-","5","-","h","a","i","k","u">>
    [] providerId = "openrouter" -> <<"g","p","t","-","4","o">>

ModelIds == {ModelOf(p) : p \in Providers}

\* getModelPricing on the model ids of the model, evaluated once
PricingOfModels ==
  [p \in Providers |-> [m \in ModelIds |-> getModelPricing(p, m)]]

\* adapter.estimateCost of the adapter registered for providerId
estimateCost(providerId, inputTokens, outputTokens, modelId) ==
  LET pricing == IF modelId \in ModelIds
                 THEN PricingOfModels[providerId][modelId]
                 ELSE getModelPricing(providerId, modelId)
  IN  calculateCost(inputTokens, outputTokens, pricing.input, pricing.output)

\* ------------------------------------------------------------------------
\* Model catalogues: the ids each vendor lists (data.data), the
\* selected model first (Anthropic's list is ANTHROPIC_MODELS)
\* ------------------------------------------------------------------------
OpenAIModels ==
  << ModelOf("openai"),
    <<"g","p","t","-","4","-","t","u","r","b","o">>,
    <<"o","1","-","m","i","n","i">>,
    <<"g","p","t","-","3",".","5","-","t","u","r","b","o">>,
    <<"d","a","v","i","n","c","i","-","0","0","2">> >>

XAIModels ==
  << ModelOf("xai"),
    <<"g","r","o","k","-","2","-","m","i","n","i">>,
    <<"g","r","o","k","-","b","e","t","a">>,
    <<"g","r","o","k","-","3">> >>

GroqModels ==
  << ModelOf("groq"),
    <<"l","l","a","m","a","-","3",".","3","-","7","0","b","-","v","e","r",
      "s","a","t","i","l","e">>,
    <<"g","e","m","m","a","2","-","9","b","-","i","t">>,
    <<"w","h","i","s","p","e","r","-","l","a","r","g","e","-","v","3">>,
    <<"a","l","l","a","m","-","2","-","7","b">> >>

GeminiModels ==
  << ModelOf("gemini"),
    <<"g","e","m","i","n","i","-","2",".","5","-","p","r","o">>,
    <<"g","e","m","i","n","i","-","1",".","5","-","f","l","a","s","h","-",
      "8","b">>,
    <<"l","e","a","r","n","l","m","-","2",".","0","-","f","l","a","s","h",
      "-","e","x","p","e","r","i","m","e","n","t","a","l">> >>

AnthropicModels ==
  << ModelOf("anthropic"),
    <<"c","l","a","u","d","e","-","s","o","n","n","e","t","-","4","-","2",
      "0","2","5","0","5","1","4">>,
    <<"c","l","a","u","d","e","-","3","-","5","-","s","o","n","n","e","t",
      "-","2","0","2","4","1","0","2","2">>,
    <<"c","l","a","u","d","e","-","3","-","o","p","u","s","-","2","0","2",
      "4","0","2","2","9">>,
    <<"c","l","a","u","d","e","-","3","-","s","o","n","n","e","t","-","2",
      "0","2","4","0","2","2","9">>,
    <<"c","l","a","u","d","e","-","3","-","h","a","i","k","u","-","2","0",
      "2","4","0","3","0","7">> >>

OpenRouterModels ==
  << ModelOf("openrouter"),
    <<"a","n","t","h","r","o","p","i","c","/","c","l","a","u","d","e","-",
      "3","-","5","-","s","o","n","n","e","t">> >>

\* a.localeCompare(b) < 0 for model ids: punctuation sorts before digits,
\* digits before letters, a proper prefix before its extensions
localeCompare(a, b) ==
  LET order == <<"-", ".", "/", "0","1","2","3","4","5","6","7","8","9">>
                 \o LowerCase
      rank(c) == CHOOSE k \in 1..Len(order) : order[k] = lowerChar(c)
      common == IF Len(a) < Len(b) THEN Len(a) ELSE Len(b)
      differ == {i \in 1..common : a[i] # b[i]}
  IN  IF differ = {} THEN Len(a) < Len(b)
      ELSE LET i == CHOOSE i \in differ : \A j \in differ : i <= j
           IN  rank(a[i]) < rank(b[i])

\* list.sort((a, b) => a.id.localeCompare(b.id)), the ids being distinct
sortById(list) ==
  LET ids == {list[i] : i \in 1..Len(list)}
  IN  [i \in 1..Len(list) |->
         CHOOSE id \in ids :
           Cardinality({other \in ids : localeCompare(other, id)}) = i - 1]

\* the ids of the models adapter.fetchModels returns for a success response
fetchModels(providerId) ==
  LET isChatModel(id) == \/ includes(id, <<"g","p","t">>)
                         \/ includes(id, <<"o","1">>)
                         \/ includes(id, <<"o","3">>)
      isNotWhisper(id) == ~includes(id, <<"w","h","i","s","p","e","r">>)
  IN  CASE providerId = "openai"     ->
             sortById(SelectSeq(OpenAIModels, isChatModel))
        [] providerId = "xai"        -> XAIModels
        [] providerId = "groq"       -> SelectSeq(GroqModels, isNotWhisper)
        [] providerId = "gemini"     -> GeminiModels
        [] providerId = "anthropic"  -> AnthropicModels
        [] providerId = "openrouter" -> OpenRouterModels

CatalogIds(providerId) ==
  {fetchModels(providerId)[i] : i \in 1..Len(fetchModels(providerId))}

\* ------------------------------------------------------------------------
\* Literal texts of the page and the adapters
\* ------------------------------------------------------------------------
SendFallbackPrompt ==
  <<"Y","o","u"," ","a","r","e"," ","a"," ","f","r","i","e","n","d",
    "l","y"," ","a","n","d"," ","h","e","l","p","f","u","l"," ","A",
    "I"," ","a","s","s","i","s","t","a","n","t","."," ","A","l","w",
    "a","y","s"," ","t","r","y"," ","y","o","u","r"," ","b","e","s",
    "t"," ","t","o"," ","a","s","s","i","s","t"," ","t","h","e"," ",
    "u","s","e","r","."," ","I","f"," ","y","o","u"," ","d","o","n",
    "'","t"," ","k","n","o","w"," ","t","h","e"," ","a","n","s","w",
    "e","r",","," ","j","u","s","t"," ","s","a","y"," ","s","o",".",
    " ","D","o","n","'","t"," ","m","a","k","e"," ","t","h","i","n",
    "g","s"," ","u","p","."," ","D","o","n","'","t"," ","m","a","k",
    "e"," ","p","r","o","m","i","s","e","s"," ","y","o","u"," ","c",
    "a","n","'","t"," ","k","e","e","p","."," ","D","o","n","'","t",
    " ","m","a","k","e"," ","u","p"," ","d","a","t","e","s"," ","o",
    "r"," ","t","i","m","e","s",".">>

RetryFallbackPrompt ==
  <<"Y","o","u"," ","a","r","e"," ","a"," ","f","r","i","e","n","d",
    "l","y"," ","a","n","d"," ","h","e","l","p","f","u","l"," ","A",
    "I"," ","a","s","s","i","s","t","a","n","t","."," ","A","l","w",
    "a","y","s"," ","t","r","y"," ","y","o","u","r"," ","b","e","s",
    "t"," ","t","o"," ","a","s","s","i","s","t"," ","t","h","e"," ",
    "u","s","e","r",".">>

DeveloperInstructionText ==
  <<"D","e","v","e","l","o","p","e","r"," ","i","n","s","t","r","u",
    "c","t","i","o","n"," ","i","s"," ","n","o","t"," ","e","n","a",
    "b","l","e","d">>

ConfigurationMessage ==
  <<"P","l","e","a","s","e"," ","c","o","n","f","i","g","u","r","e",
    " ","a","n"," ","A","P","I"," ","k","e","y"," ","a","n","d"," ",
    "s","e","l","e","c","t"," ","a"," ","m","o","d","e","l">>

NoApiKeyMessage ==
  <<"N","o"," ","A","P","I"," ","k","e","y">>

NoResponseBodyMessage ==
  <<"N","o"," ","r","e","s","p","o","n","s","e"," ","b","o","d","y">>

FailedToFetchMessage ==
  <<"F","a","i","l","e","d"," ","t","o"," ","f","e","t","c","h">>

NetworkErrorMessage ==
  <<"n","e","t","w","o","r","k"," ","e","r","r","o","r">>

AbortMessage ==
  <<"T","h","e"," ","u","s","e","r"," ","a","b","o","r","t","e","d",
    " ","a"," ","r","e","q","u","e","s","t",".">>

NewChatTitle ==
  <<"N","e","w"," ","C","h","a","t">>

openaiErrorPrefix ==
  <<"O","p","e","n","A","I"," ","A","P","I"," ","e","r","r","o","r",
    ":"," ">>

xaiErrorPrefix ==
  <<"x","A","I"," ","A","P","I"," ","e","r","r","o","r",":"," ">>

groqErrorPrefix ==
  <<"G","r","o","q"," ","A","P","I"," ","e","r","r","o","r",":"," ">>

openrouterErrorPrefix ==
  <<"O","p","e","n","R","o","u","t","e","r"," ","A","P","I"," ","e",
    "r","r","o","r",":"," ">>

geminiErrorPrefix ==
  <<"G","e","m","i","n","i"," ","A","P","I"," ","e","r","r","o","r",
    ":"," ">>

anthropicErrorPrefix ==
  <<"A","n","t","h","r","o","p","i","c"," ","A","P","I"," ","e","r",
    "r","o","r",":"," ">>

LoadModelsErrorPrefix ==
  <<"F","a","i","l","e","d"," ","t","o"," ","l","o","a","d"," ","m","o","d",
    "e","l","s",":"," ">>

\* ------------------------------------------------------------------------
\* Inputs of the model
\* ------------------------------------------------------------------------
\* the configured system prompt of the preferences: empty, blank, or set
SystemPromptPrefs == {<<>>, <<" ">>, <<"B","e"," ","b","r","i","e","f">>}

UserTexts == {<<"h","i">>}

AttachmentCounts == {1}

RenameTitles == {<<"r">>}

\* texts carried by the token lines of a vendor stream
Hel == <<"H","e","l">>

lo == <<"l","o">>

\* parsed lines of a vendor stream
TokenLine(text) == [type |-> "token", text |-> text]

DoneLine == [type |-> "done", text |-> <<>>]

InvalidLine == [type |-> "invalid", text |-> <<>>]

\* the k-th chunk of a response body that ends with the sentinel line
SentinelLast(k) ==
  IF k % 2 = 1 THEN <<TokenLine(Hel)>>
  ELSE <<InvalidLine, TokenLine(lo), DoneLine>>

\* the k-th chunk of a response body that carries lines after the sentinel
SentinelFirst(k) ==
  IF k % 2 = 1 THEN <<TokenLine(Hel), DoneLine, InvalidLine>>
  ELSE <<TokenLine(lo)>>

ResponseBodies == {"sentinelLast", "sentinelFirst"}

\* bodies of a non-success response
ErrorBodies == {DeveloperInstructionText, <<"d","e","n","i","e","d">>}

\* response.statusText of a non-success catalogue response (empty over
\* HTTP/2)
StatusTexts == {<<>>, <<"U","n","a","u","t","h","o","r","i","z","e","d">>}

\* elapsed seconds between the start of a request and its completion
Durations == {2}

\* ------------------------------------------------------------------------
\* State
\* ------------------------------------------------------------------------
VARIABLES
  conversation,            \* the displayed conversation, or NoConversation
  isLoading,
  streamingMessageId,      \* None or Some(message id)
  error,                   \* None or Some(message text)
  systemPromptWarningOpen,
  sessionCost,
  selectedProvider,
  selectedModel,
  apiKeys,                 \* the providers that have a stored key
  systemPromptPref,        \* getPreferences().systemPrompt
  abortControllerRef,      \* None or Some(request) : abortControllerRef.current
  conversations,           \* the stored conversation list (localStorage)
  requests,                \* the streamChat invocations, in order of creation
  nextId,                  \* source of fresh uuids
  sidebarOps,              \* number of sidebar operations so far
  models,                  \* the ids of the model catalogue shown
  loadingModels,
  modelRequests,           \* the loadModels runs, in order of creation
  call,                    \* a library function under call, or NoCall
  responseBody,            \* which lines the vendor's response bodies carry
  groups                   \* the ids of the stored chat groups (localStorage)

\* the state of the model catalogue
catalogVars == <<models, loadingModels, modelRequests>>

vars == <<conversation, isLoading, streamingMessageId, error,
          systemPromptWarningOpen, sessionCost, selectedProvider,
          selectedModel, apiKeys, systemPromptPref, abortControllerRef,
          conversations, requests, nextId, sidebarOps, catalogVars, call, responseBody, groups>>

NoCall == [fn |-> "none"]

NoConversation == [id |-> 0]

\* the k-th chunk the vendor's response body delivers
Chunk(k) ==
  IF responseBody = "sentinelLast" THEN SentinelLast(k) ELSE SentinelFirst(k)

SystemId == 0

\* ------------------------------------------------------------------------
\* lib/storage: conversations
\* ------------------------------------------------------------------------
findIndex(list, id) ==
  IF \E i \in 1..Len(list) : list[i].id = id
  THEN CHOOSE i \in 1..Len(list) :
         /\ list[i].id = id
         /\ \A k \in 1..(i - 1) : list[k].id # id
  ELSE 0

getConversation(list, id) ==
  IF findIndex(list, id) > 0 THEN Some(list[findIndex(list, id)]) ELSE None

\* a save that always inserts at the front
saveConversationUnshift(list, conv) == <<conv>> \o list

saveConversation(list, conv) ==
  IF findIndex(list, conv.id) > 0
  THEN [list EXCEPT ![findIndex(list, conv.id)] = conv]
  ELSE <<conv>> \o list

Not(optBool) == IF optBool = Some(TRUE) THEN Some(FALSE) ELSE Some(TRUE)

togglePinConversation(list, id) ==
  IF findIndex(list, id) > 0
  THEN saveConversation(list,
         [list[findIndex(list, id)] EXCEPT !.pinned = Not(@)])
  ELSE list

createNewConversation(id, providerId, modelId) ==
  [id |-> id, title |-> NewChatTitle, messages |-> <<>>,
   providerId |-> providerId, modelId |-> modelId, totalCost |-> 0,
   disableSystemPrompt |-> None, pinned |-> None, groupId |-> None]

IsSpace(c) == c \in {" ", "\n", "\t"}

RECURSIVE trimStart(_)
trimStart(s) ==
  IF Len(s) > 0 /\ IsSpace(s[1]) THEN trimStart(Tail(s)) ELSE s

RECURSIVE trimEnd(_)
trimEnd(s) ==
  IF Len(s) > 0 /\ IsSpace(s[Len(s)]) THEN trimEnd(SubSeq(s, 1, Len(s) - 1)) ELSE s

trim(s) == trimEnd(trimStart(s))

Min(a, b) == IF a < b THEN a ELSE b

generateConversationTitle(firstMessage) ==
  LET title == trim(SubSeq(firstMessage, 1, Min(50, Len(firstMessage))))
  IN  IF Len(title) < Len(firstMessage) THEN title \o <<".",".",".">> ELSE title

\* ------------------------------------------------------------------------
\* Messages
\* ------------------------------------------------------------------------
UserMessage(id, content, attachments) ==
  [id |-> id, role |-> "user", content |-> content,
   tokenCount |-> Some(estimateTokens(content, attachments)),
   timing |-> None, model |-> None, attachments |-> attachments]

AssistantPlaceholder(id) ==
  [id |-> id, role |-> "assistant", content |-> <<>>,
   tokenCount |-> None, timing |-> None, model |-> None, attachments |-> 0]

SystemMessage(content) ==
  [id |-> SystemId, role |-> "system", content |-> content,
   tokenCount |-> None, timing |-> None, model |-> None, attachments |-> 0]

Truthy(optBool) == optBool = Some(TRUE)

\* a system prompt chosen without trimming the configured one
SendSystemPromptUntrimmed(userSystemPrompt) ==
  IF Len(userSystemPrompt) > 0 THEN userSystemPrompt ELSE SendFallbackPrompt

\* the system prompt Send synthesizes
SendSystemPrompt(userSystemPrompt) ==
  IF Len(userSystemPrompt) > 0 /\ Len(trim(userSystemPrompt)) > 0
  THEN userSystemPrompt ELSE SendFallbackPrompt

\* the system prompt Retry synthesizes
RetrySystemPrompt(userSystemPrompt) ==
  IF Len(userSystemPrompt) > 0 /\ Len(trim(userSystemPrompt)) > 0
  THEN userSystemPrompt ELSE RetryFallbackPrompt

\* an outbound list that ignores disableSystemPrompt
WithSystemPromptAlways(conv, history, systemPrompt) ==
  <<SystemMessage(systemPrompt)>> \o history

\* apiMessages of Send and Retry: history, with the system message first
\* unless the conversation disables it
WithSystemPrompt(conv, history, systemPrompt) ==
  IF ~Truthy(conv.disableSystemPrompt)
  THEN <<SystemMessage(systemPrompt)>> \o history
  ELSE history

RECURSIVE SumTokens(_, _)
\* apiMessages.reduce((acc, m) => acc + estimateTokens(m.content, ...), 0)
SumTokens(msgs, withAttachments) ==
  IF msgs = <<>> THEN 0
  ELSE estimateTokens(Head(msgs).content,
                      IF withAttachments THEN Head(msgs).attachments ELSE 0)
       + SumTokens(Tail(msgs), withAttachments)

\* ------------------------------------------------------------------------
\* Requests: one streamChat invocation and the closure of its caller
\* ------------------------------------------------------------------------
NewRequest(kind, conv, placeholderId, apiMessages) ==
  [kind |-> kind,                    \* "send", "retry" or "continue"
   conversationId |-> conv.id,
   placeholderId |-> placeholderId,  \* assistantMessage.id / lastMessage.id
   apiMessages |-> apiMessages,
   providerId |-> selectedProvider,  \* the adapter of the call
   model |-> selectedModel,          \* config.model
   phase |-> "fetch",                \* "fetch", "read" or "done"
   aborted |-> FALSE,                \* signal.aborted
   reads |-> 0,                      \* chunks read from the body
   adapterFullResponse |-> <<>>,     \* fullResponse of streamChat
   fullResponse |-> <<>>,            \* fullResponse of the caller
   outcome |-> "pending",            \* how the vendor request ended
   delivered |-> <<>>,               \* the texts passed to onToken, joined
   nComplete |-> 0,                  \* calls of callbacks.onComplete
   nError |-> 0,                     \* calls of callbacks.onError
   completedWith |-> None,           \* the argument of onComplete
   thrown |-> FALSE,                 \* streamChat rejected
   tokenAfterTerminal |-> FALSE]     \* onToken ran after a terminal callback

\* the record of a request whose streamChat call has settled: the closure
\* of the call is unreachable from then on
Settle(req, outcome) ==
  [req EXCEPT !.phase = "done", !.outcome = outcome,
              !.apiMessages = <<>>, !.reads = 0]

InFlight(r) == requests[r].phase # "done"

RequestIds == 1..Len(requests)

\* an aborted request settles before any other event is handled
AbortPending == \E r \in RequestIds : InFlight(r) /\ requests[r].aborted

Error(name, message) == [name |-> name, message |-> message]

ErrorPrefix(providerId) ==
  CASE providerId = "openai"     -> openaiErrorPrefix
    [] providerId = "xai"        -> xaiErrorPrefix
    [] providerId = "groq"       -> groqErrorPrefix
    [] providerId = "gemini"     -> geminiErrorPrefix
    [] providerId = "anthropic"  -> anthropicErrorPrefix
    [] providerId = "openrouter" -> openrouterErrorPrefix

\* ------------------------------------------------------------------------
\* Initial state: the page after mount, no conversation selected, the
\* catalogue of the selected provider loaded
\* ------------------------------------------------------------------------
Init ==
  /\ conversation = NoConversation
  /\ isLoading = FALSE
  /\ streamingMessageId = None
  /\ error = None
  /\ systemPromptWarningOpen = FALSE
  /\ sessionCost = 0
  /\ selectedProvider \in Providers
  /\ selectedModel = ModelOf(selectedProvider)
  /\ apiKeys = {selectedProvider}
  /\ systemPromptPref \in SystemPromptPrefs
  /\ selectedProvider = "gemini" \/ systemPromptPref = <<>>
  /\ abortControllerRef = None
  /\ conversations = <<>>
  /\ requests = <<>>
  /\ nextId = 1
  /\ sidebarOps = 0
  /\ models = fetchModels(selectedProvider)
  /\ loadingModels = FALSE
  /\ modelRequests = <<>>
  /\ call = NoCall
  /\ responseBody = "sentinelLast"
  /\ groups = {}

\* a conversation of an earlier session, as localStorage holds it: "hi"
\* was answered "Hello" by Continue-without-system-prompt
RestoredConversation ==
  [id |-> 1,
   title |-> generateConversationTitle(<<"h","i">>),
   messages |-> << UserMessage(2, <<"h","i">>, 1),
                   [AssistantPlaceholder(3) EXCEPT
                      !.content = Hel \o lo,
                      !.tokenCount = Some(estimateTokens(Hel \o lo, 0)),
                      !.timing = Some(2),
                      !.model = Some(ModelOf("gemini"))] >>,
   providerId |-> "gemini",
   modelId |-> ModelOf("gemini"),
   totalCost |-> estimateCost("gemini", estimateTokens(<<"h","i">>, 0),
                              estimateTokens(Hel \o lo, 0), ModelOf("gemini")),
   disableSystemPrompt |-> Some(TRUE),
   pinned |-> None,
   groupId |-> None]

\* the page after mount when the store holds that conversation; the key of
\* its provider is still stored, or has been removed in the settings and
\* then no model is selected
InitRestored ==
  /\ conversation = NoConversation
  /\ isLoading = FALSE
  /\ streamingMessageId = None
  /\ error = None
  /\ systemPromptWarningOpen = FALSE
  /\ sessionCost = 0
  /\ selectedProvider = "gemini"
  /\ apiKeys \in {{}, {"gemini"}}
  /\ selectedModel = IF selectedProvider \in apiKeys
                     THEN ModelOf(selectedProvider) ELSE <<>>
  /\ systemPromptPref \in SystemPromptPrefs
  /\ abortControllerRef = None
  /\ conversations = <<RestoredConversation>>
  /\ requests = <<>>
  /\ nextId = 4
  /\ sidebarOps = 0
  /\ models = IF selectedModel = <<>> THEN <<>>
              ELSE fetchModels(selectedProvider)
  /\ loadingModels = FALSE
  /\ modelRequests = <<>>
  /\ call = NoCall
  /\ responseBody = "sentinelLast"
  /\ groups = {}

\* ------------------------------------------------------------------------
\* Callbacks the orchestrator passes to streamChat
\* ------------------------------------------------------------------------
\* setConversation updater of onToken
TokenUpdate(prev, req, fullResponse) ==
  IF prev = NoConversation THEN prev
  ELSE LET messages == [i \in 1..Len(prev.messages) |->
                          IF prev.messages[i].id = req.placeholderId
                          THEN [prev.messages[i] EXCEPT !.content = fullResponse]
                          ELSE prev.messages[i]]
       IN  IF req.kind = "continue"
           THEN [prev EXCEPT !.messages = messages,
                             !.disableSystemPrompt = Some(TRUE)]
           ELSE [prev EXCEPT !.messages = messages]

\* inputTokens of onComplete: Continue calls estimateTokens(m.content) only
InputTokens(req) == SumTokens(req.apiMessages, req.kind # "continue")

RequestCost(req, response) ==
  estimateCost(req.providerId, InputTokens(req),
               estimateTokens(response, 0), req.model)

\* setConversation updater of onComplete
CompleteUpdate(prev, req, response, duration) ==
  LET messages == [i \in 1..Len(prev.messages) |->
                     IF prev.messages[i].id = req.placeholderId
                     THEN [prev.messages[i] EXCEPT
                             !.content = response,
                             !.tokenCount = Some(estimateTokens(response, 0)),
                             !.timing = Some(duration),
                             !.model = Some(req.model)]
                     ELSE prev.messages[i]]
      total == prev.totalCost + RequestCost(req, response)
  IN  IF req.kind = "continue"
      THEN [prev EXCEPT !.messages = messages, !.totalCost = total,
                        !.disableSystemPrompt = Some(TRUE)]
      ELSE [prev EXCEPT !.messages = messages, !.totalCost = total]

\* onComplete(response) of request r; settled is the record r is left with
OnComplete(r, settled, response) ==
  \E duration \in Durations :
    /\ IF conversation = NoConversation
       THEN UNCHANGED <<conversation, conversations>>
       ELSE /\ conversation' = CompleteUpdate(conversation, requests[r],
                                              response, duration)
            /\ conversations' = saveConversation(conversations, conversation')
    /\ sessionCost' = sessionCost + RequestCost(requests[r], response)
    /\ isLoading' = FALSE
    /\ streamingMessageId' = None
    /\ requests' = [requests EXCEPT ![r] =
                      [settled EXCEPT !.nComplete = @ + 1,
                                      !.completedWith = Some(response)]]
    /\ UNCHANGED <<error, systemPromptWarningOpen, selectedProvider,
                   selectedModel, apiKeys, systemPromptPref, catalogVars, call, responseBody, groups,
                   abortControllerRef, nextId, sidebarOps>>

\* onError(err) of a streamChat that rethrows the error after reporting it
OnErrorRethrowing(r, settled, err) ==
  /\ error' = Some(err.message)
  /\ isLoading' = FALSE
  /\ streamingMessageId' = None
  /\ requests' = [requests EXCEPT ![r] =
                    [settled EXCEPT !.nError = @ + 1, !.thrown = TRUE]]
  /\ UNCHANGED <<conversation, conversations, sessionCost,
                 systemPromptWarningOpen, selectedProvider, selectedModel,
                 apiKeys, systemPromptPref, catalogVars, call, responseBody, groups, abortControllerRef, nextId,
                 sidebarOps>>

\* onError(err) of request r
OnError(r, settled, err) ==
  /\ error' = Some(err.message)
  /\ isLoading' = FALSE
  /\ streamingMessageId' = None
  /\ requests' = [requests EXCEPT ![r] = [settled EXCEPT !.nError = @ + 1]]
  /\ UNCHANGED <<conversation, conversations, sessionCost,
                 systemPromptWarningOpen, selectedProvider, selectedModel,
                 apiKeys, systemPromptPref, catalogVars, call, responseBody, groups, abortControllerRef, nextId,
                 sidebarOps>>

\* a catch block that forgets setStreamingMessageId(undefined)
CatchLeavingMarker(r, settled, err) ==
  /\ IF err.name # "AbortError"
     THEN IF settled.kind = "send" /\ includes(err.message, DeveloperInstructionText)
          THEN systemPromptWarningOpen' = TRUE /\ UNCHANGED error
          ELSE error' = Some(err.message) /\ UNCHANGED systemPromptWarningOpen
     ELSE UNCHANGED <<error, systemPromptWarningOpen>>
  /\ isLoading' = FALSE
  /\ requests' = [requests EXCEPT ![r] = settled]
  /\ UNCHANGED <<conversation, conversations, sessionCost, selectedProvider,
                 selectedModel, apiKeys, systemPromptPref, catalogVars, call, responseBody, groups, streamingMessageId,
                 abortControllerRef, nextId, sidebarOps>>

\* the catch block around `await adapter.streamChat(...)` of the handler
\* that issued request r
Catch(r, settled, err) ==
  /\ IF err.name # "AbortError"
     THEN IF settled.kind = "send" /\ includes(err.message, DeveloperInstructionText)
          THEN systemPromptWarningOpen' = TRUE /\ UNCHANGED error
          ELSE error' = Some(err.message) /\ UNCHANGED systemPromptWarningOpen
     ELSE UNCHANGED <<error, systemPromptWarningOpen>>
  /\ isLoading' = FALSE
  /\ streamingMessageId' = None
  /\ requests' = [requests EXCEPT ![r] = settled]
  /\ UNCHANGED <<conversation, conversations, sessionCost, selectedProvider,
                 selectedModel, apiKeys, systemPromptPref, catalogVars, call, responseBody, groups,
                 abortControllerRef, nextId, sidebarOps>>

\* ------------------------------------------------------------------------
\* Page handlers
\* ------------------------------------------------------------------------
\* a New Chat that keeps the session cost of the conversation it leaves
handleNewChatKeepingCost ==
  /\ ~AbortPending
  /\ nextId <= MaxIds
  /\ selectedModel # <<>>
  /\ conversation' = createNewConversation(nextId, selectedProvider, selectedModel)
  /\ nextId' = nextId + 1
  /\ error' = None
  /\ UNCHANGED <<isLoading, streamingMessageId, systemPromptWarningOpen,
                 selectedProvider, selectedModel, apiKeys, systemPromptPref,
                 catalogVars, call, responseBody, groups, sessionCost,
                 abortControllerRef, conversations, requests, sidebarOps>>

handleNewChat ==
  /\ ~AbortPending
  /\ nextId <= MaxIds
  /\ selectedModel # <<>>
  /\ conversation' = createNewConversation(nextId, selectedProvider, selectedModel)
  /\ nextId' = nextId + 1
  /\ sessionCost' = 0
  /\ error' = None
  /\ UNCHANGED <<isLoading, streamingMessageId, systemPromptWarningOpen,
                 selectedProvider, selectedModel, apiKeys, systemPromptPref, catalogVars, call, responseBody, groups,
                 abortControllerRef, conversations, requests, sidebarOps>>

handleSelectConversation(id) ==
  /\ ~AbortPending
  /\ sidebarOps < MaxSidebarOps
  /\ getConversation(conversations, id) # None
  /\ LET conv == getConversation(conversations, id)[1]
     IN  /\ conversation' = conv
         /\ selectedProvider' = conv.providerId
         /\ selectedModel' = conv.modelId
         /\ sessionCost' = conv.totalCost
  /\ error' = None
  /\ sidebarOps' = sidebarOps + 1
  /\ UNCHANGED <<isLoading, streamingMessageId, systemPromptWarningOpen,
                 apiKeys, systemPromptPref, catalogVars, call, responseBody, groups, abortControllerRef,
                 conversations, requests, nextId>>

\* the Stop button, shown while isLoading
handleStop ==
  /\ ~AbortPending
  /\ isLoading
  /\ IF abortControllerRef # None
     THEN /\ requests' = [requests EXCEPT ![abortControllerRef[1]].aborted = TRUE]
          /\ abortControllerRef' = None
     ELSE UNCHANGED <<requests, abortControllerRef>>
  /\ isLoading' = FALSE
  /\ streamingMessageId' = None
  /\ UNCHANGED <<conversation, error, systemPromptWarningOpen, sessionCost,
                 selectedProvider, selectedModel, apiKeys, systemPromptPref, catalogVars, call, responseBody, groups,
                 conversations, nextId, sidebarOps>>

handlePinConversation(id) ==
  /\ ~AbortPending
  /\ sidebarOps < MaxSidebarOps
  /\ getConversation(conversations, id) # None
  /\ conversations' = togglePinConversation(conversations, id)
  /\ conversation' = IF conversation.id = id
                     THEN [conversation EXCEPT !.pinned = Not(@)]
                     ELSE conversation
  /\ sidebarOps' = sidebarOps + 1
  /\ UNCHANGED <<isLoading, streamingMessageId, error,
                 systemPromptWarningOpen, sessionCost, selectedProvider,
                 selectedModel, apiKeys, systemPromptPref, catalogVars, call, responseBody, groups,
                 abortControllerRef, requests, nextId>>

handleRenameConversation(id, newTitle) ==
  /\ ~AbortPending
  /\ sidebarOps < MaxSidebarOps
  /\ getConversation(conversations, id) # None
  /\ LET updated == [getConversation(conversations, id)[1] EXCEPT !.title = newTitle]
     IN  /\ conversations' = saveConversation(conversations, updated)
         /\ conversation' = IF conversation.id = id THEN updated ELSE conversation
  /\ sidebarOps' = sidebarOps + 1
  /\ UNCHANGED <<isLoading, streamingMessageId, error,
                 systemPromptWarningOpen, sessionCost, selectedProvider,
                 selectedModel, apiKeys, systemPromptPref, catalogVars, call, responseBody, groups,
                 abortControllerRef, requests, nextId>>

\* onOpenChange(false) / Cancel of the system prompt dialog
dismissSystemPromptWarning ==
  /\ ~AbortPending
  /\ systemPromptWarningOpen
  /\ systemPromptWarningOpen' = FALSE
  /\ UNCHANGED <<conversation, isLoading, streamingMessageId, error,
                 sessionCost, selectedProvider, selectedModel, apiKeys,
                 systemPromptPref, catalogVars, call, responseBody, groups, abortControllerRef, conversations,
                 requests, nextId, sidebarOps>>

\* no check of the key and the model
canSendMessageAlways == TRUE

\* ChatInput disables sending unless a key and a model are present and the
\* catalogue is not loading
canSendMessage ==
  selectedProvider \in apiKeys /\ selectedModel # <<>> /\ ~loadingModels

\* ChatInput.handleSubmit (which returns while isLoading) calling handleSend
handleSend(content, attachments) ==
  /\ ~AbortPending
  /\ ~isLoading /\ canSendMessage
  /\ Len(requests) < MaxRequests
  /\ LET fresh == conversation = NoConversation
         currentConv == IF fresh
                        THEN createNewConversation(nextId, selectedProvider, selectedModel)
                        ELSE conversation
         firstId == IF fresh THEN nextId + 1 ELSE nextId
         userMessage == UserMessage(firstId, content, attachments)
         assistantMessage == AssistantPlaceholder(firstId + 1)
         updatedMessages == currentConv.messages \o <<userMessage, assistantMessage>>
         updatedConv == [currentConv EXCEPT
                           !.messages = updatedMessages,
                           !.title = IF Len(currentConv.messages) = 0
                                     THEN generateConversationTitle(content)
                                     ELSE @,
                           !.modelId = selectedModel,
                           !.providerId = selectedProvider]
         apiMessages == WithSystemPrompt(currentConv,
                          SubSeq(updatedMessages, 1, Len(updatedMessages) - 1),
                          SendSystemPrompt(systemPromptPref))
     IN  /\ conversation' = updatedConv
         /\ conversations' = saveConversation(conversations, updatedConv)
         /\ streamingMessageId' = Some(assistantMessage.id)
         /\ nextId' = firstId + 2
         /\ requests' = Append(requests,
              NewRequest("send", updatedConv, assistantMessage.id, apiMessages))
  /\ error' = None
  /\ isLoading' = TRUE
  /\ abortControllerRef' = Some(Len(requests) + 1)
  /\ UNCHANGED <<systemPromptWarningOpen, sessionCost, selectedProvider,
                 selectedModel, apiKeys, systemPromptPref, catalogVars, call, responseBody, groups, sidebarOps>>

\* a history cut before the target message: slice(0, index)
RetryHistoryExclusive(conv, index) == SubSeq(conv.messages, 1, index - 1)

\* const apiMessagesFull = conversation.messages.slice(0, index + 1)
RetryHistory(conv, index) == SubSeq(conv.messages, 1, index)

\* the Retry button of a user message of the displayed conversation
handleRetry(messageId) ==
  /\ ~AbortPending
  /\ conversation # NoConversation
  /\ findIndex(conversation.messages, messageId) > 0
  /\ conversation.messages[findIndex(conversation.messages, messageId)].role = "user"
  /\ Len(requests) < MaxRequests
  /\ IF ~(selectedProvider \in apiKeys) \/ selectedModel = <<>>
     THEN /\ error' = Some(ConfigurationMessage)
          /\ UNCHANGED <<conversation, isLoading, streamingMessageId,
                         abortControllerRef, conversations, requests, nextId>>
     ELSE LET index == findIndex(conversation.messages, messageId)
              apiMessagesFull == RetryHistory(conversation, index)
              assistantMessage == AssistantPlaceholder(nextId)
              updatedConv == [conversation EXCEPT
                                !.messages = apiMessagesFull \o <<assistantMessage>>]
              apiMessages == WithSystemPrompt(updatedConv, apiMessagesFull,
                               RetrySystemPrompt(systemPromptPref))
          IN  /\ error' = None
              /\ isLoading' = TRUE
              /\ conversation' = updatedConv
              /\ conversations' = saveConversation(conversations, updatedConv)
              /\ streamingMessageId' = Some(assistantMessage.id)
              /\ nextId' = nextId + 1
              /\ abortControllerRef' = Some(Len(requests) + 1)
              /\ requests' = Append(requests,
                   NewRequest("retry", updatedConv, assistantMessage.id, apiMessages))
  /\ UNCHANGED <<systemPromptWarningOpen, sessionCost, selectedProvider,
                 selectedModel, apiKeys, systemPromptPref, catalogVars, call, responseBody, groups, sidebarOps>>

\* an outbound list that keeps the empty placeholder
ContinueApiMessagesWithPlaceholder(conv) == conv.messages

\* const apiMessages = conversation.messages.slice(0, -1)
ContinueApiMessages(conv) == SubSeq(conv.messages, 1, Len(conv.messages) - 1)

\* the Continue button of the system prompt dialog (each opening of the
\* dialog takes a rejected Send, which bounds the Continue requests)
handleContinueWithoutSystemPrompt ==
  /\ ~AbortPending
  /\ systemPromptWarningOpen
  /\ systemPromptWarningOpen' = FALSE
  /\ IF \/ conversation = NoConversation
        \/ Len(conversation.messages) = 0
        \/ conversation.messages[Len(conversation.messages)].role # "assistant"
     THEN UNCHANGED <<isLoading, streamingMessageId, error,
                      abortControllerRef, requests>>
     ELSE LET lastMessage == conversation.messages[Len(conversation.messages)]
              apiMessages == ContinueApiMessages(conversation)
          IN  IF selectedProvider \in apiKeys
              THEN /\ isLoading' = TRUE
                   /\ streamingMessageId' = Some(lastMessage.id)
                   /\ error' = None
                   /\ abortControllerRef' = Some(Len(requests) + 1)
                   /\ requests' = Append(requests,
                        NewRequest("continue", conversation, lastMessage.id,
                                   apiMessages))
              ELSE \* throw new Error("No API key"), caught by the handler
                   /\ isLoading' = FALSE
                   /\ streamingMessageId' = None
                   /\ error' = Some(NoApiKeyMessage)
                   /\ abortControllerRef' = None
                   /\ UNCHANGED requests
  /\ UNCHANGED <<conversation, sessionCost, selectedProvider, selectedModel,
                 apiKeys, systemPromptPref, catalogVars, call, responseBody, groups, conversations, nextId, sidebarOps>>

\* ------------------------------------------------------------------------
\* streamChat of the adapters: the steps after `await fetch(...)`
\* ------------------------------------------------------------------------
HasSystemMessage(msgs) == \E i \in 1..Len(msgs) : msgs[i].role = "system"

\* a message list sent as it is
vendorMessagesUnfiltered(providerId, messages) == messages

\* messages.filter(m => m.role !== 'system') of the Gemini and Anthropic
\* adapters; the OpenAI-compatible adapters map every message
vendorMessages(providerId, messages) ==
  IF providerId \in {"gemini", "anthropic"}
  THEN SelectSeq(messages, LAMBDA m : m.role # "system")
  ELSE messages

\* requestBody.systemInstruction (Gemini) / requestBody.system (Anthropic):
\* the content of messages.find(m => m.role === 'system')
systemField(providerId, messages) ==
  IF providerId \in {"gemini", "anthropic"} /\ HasSystemMessage(messages)
  THEN LET i == CHOOSE i \in 1..Len(messages) :
                  /\ messages[i].role = "system"
                  /\ \A k \in 1..(i - 1) : messages[k].role # "system"
       IN  Some(messages[i].content)
  ELSE None

\* role: msg.role === 'user' ? 'user' : 'model' of the Gemini adapter;
\* role: msg.role of the others
vendorRole(providerId, role) ==
  IF providerId = "gemini"
  THEN IF role = "user" THEN "user" ELSE "model"
  ELSE role

\* the roles and texts of the request body of streamChat
requestBody(providerId, messages) ==
  LET kept == vendorMessages(providerId, messages)
  IN  [messages |-> [i \in 1..Len(kept) |->
                       [role |-> vendorRole(providerId, kept[i].role),
                        content |-> kept[i].content]],
       system |-> systemField(providerId, messages)]

Fetching(r) == r \in RequestIds /\ requests[r].phase = "fetch"

Reading(r) == r \in RequestIds /\ requests[r].phase = "read"

\* fetch resolved with a success status and a body: the read loop starts
fetchOk(r) ==
  /\ ~AbortPending
  /\ Fetching(r)
  /\ requests' = [requests EXCEPT ![r].phase = "read"]
  /\ UNCHANGED <<conversation, isLoading, streamingMessageId, error,
                 systemPromptWarningOpen, sessionCost, selectedProvider,
                 selectedModel, apiKeys, systemPromptPref, catalogVars, call, responseBody, groups,
                 abortControllerRef, conversations, nextId, sidebarOps>>

\* a streamChat whose fetch and status checks sit inside its try block
ThrowThroughOnError(r, outcome, err) ==
  OnError(r, Settle(requests[r], outcome), err)

\* streamChat rejects with err before its try block; the caller catches it
Throw(r, outcome, err) ==
  Catch(r, [Settle(requests[r], outcome) EXCEPT !.thrown = TRUE], err)

\* if (!response.ok) throw new Error(`<Vendor> API error: ${error}`)
\* (a vendor rejects system instructions only when the request carries one)
responseNotOk(r, body) ==
  /\ ~AbortPending
  /\ Fetching(r)
  /\ body = DeveloperInstructionText => HasSystemMessage(requests[r].apiMessages)
  /\ Throw(r, "httpError",
           Error("Error", ErrorPrefix(requests[r].providerId) \o body))

\* fetch rejects: network failure
fetchFailed(r) ==
  /\ ~AbortPending
  /\ Fetching(r)
  /\ Throw(r, "networkError", Error("TypeError", FailedToFetchMessage))

\* if (!reader) throw new Error('No response body')
noResponseBody(r) ==
  /\ ~AbortPending
  /\ Fetching(r)
  /\ Throw(r, "noBody", Error("Error", NoResponseBodyMessage))

\* a streamChat whose fetch is inside the try block: the AbortError of
\* fetch reaches callbacks.onComplete
fetchAbortedThroughOnComplete(r) ==
  /\ Fetching(r) /\ requests[r].aborted
  /\ OnComplete(r, Settle(requests[r], "fetchCancelled"), <<>>)

\* the signal fired while fetch was pending: fetch rejects with AbortError
fetchAborted(r) ==
  /\ Fetching(r) /\ requests[r].aborted
  /\ Throw(r, "fetchCancelled", Error("AbortError", AbortMessage))

RECURSIVE ProcessLinesUntilInvalid(_, _, _)
\* a loop that leaves the chunk at the first line it cannot parse
ProcessLinesUntilInvalid(lines, req, conv) ==
  IF lines = <<>> \/ Head(lines).type = "invalid"
  THEN [req |-> req, conv |-> conv]
  ELSE LET line == Head(lines)
       IN  IF line.type = "token" /\ Len(line.text) > 0
           THEN LET req1 == [req EXCEPT
                               !.adapterFullResponse = @ \o line.text,
                               !.fullResponse = @ \o line.text,
                               !.delivered = @ \o line.text,
                               !.tokenAfterTerminal =
                                   @ \/ req.nComplete + req.nError > 0]
                IN  ProcessLinesUntilInvalid(Tail(lines), req1,
                                 TokenUpdate(conv, req1, req1.fullResponse))
           ELSE ProcessLinesUntilInvalid(Tail(lines), req, conv)

RECURSIVE ProcessLines(_, _, _)
\* the `for (const line of lines)` loop: the request record and the
\* conversation after the onToken calls of the lines
ProcessLines(lines, req, conv) ==
  IF lines = <<>> THEN [req |-> req, conv |-> conv]
  ELSE LET line == Head(lines)
       IN  IF line.type = "token" /\ Len(line.text) > 0
           THEN LET req1 == [req EXCEPT
                               !.adapterFullResponse = @ \o line.text,
                               !.fullResponse = @ \o line.text,
                               !.delivered = @ \o line.text,
                               !.tokenAfterTerminal =
                                   @ \/ req.nComplete + req.nError > 0]
                IN  ProcessLines(Tail(lines), req1,
                                 TokenUpdate(conv, req1, req1.fullResponse))
           ELSE ProcessLines(Tail(lines), req, conv)

\* reader.read() returned the next chunk
readChunk(r) ==
  /\ ~AbortPending
  /\ Reading(r)
  /\ requests[r].reads < MaxReads
  /\ LET res == ProcessLines(Chunk(requests[r].reads + 1),
                             [requests[r] EXCEPT !.reads = @ + 1],
                             conversation)
     IN  /\ requests' = [requests EXCEPT ![r] = res.req]
         /\ conversation' = res.conv
  /\ UNCHANGED <<isLoading, streamingMessageId, error,
                 systemPromptWarningOpen, sessionCost, selectedProvider,
                 selectedModel, apiKeys, systemPromptPref, catalogVars, call, responseBody, groups,
                 abortControllerRef, conversations, nextId, sidebarOps>>

\* a streamChat that completes without the accumulated text
readDoneWithoutText(r) ==
  /\ ~AbortPending
  /\ Reading(r)
  /\ OnComplete(r, Settle(requests[r], "complete"), <<>>)

\* reader.read() returned done: callbacks.onComplete(fullResponse)
readDone(r) ==
  /\ ~AbortPending
  /\ Reading(r)
  /\ OnComplete(r, Settle(requests[r], "complete"),
                requests[r].adapterFullResponse)

\* a read failure that settles the request without any callback
readFailedSilently(r) ==
  /\ ~AbortPending
  /\ Reading(r)
  /\ requests' = [requests EXCEPT ![r] = Settle(requests[r], "readError")]
  /\ UNCHANGED <<conversation, isLoading, streamingMessageId, error,
                 systemPromptWarningOpen, sessionCost, selectedProvider,
                 selectedModel, apiKeys, systemPromptPref, catalogVars, call,
                 responseBody, groups, abortControllerRef, conversations, nextId,
                 sidebarOps>>

\* reader.read() rejected with a network error: callbacks.onError(error)
readFailed(r) ==
  /\ ~AbortPending
  /\ Reading(r)
  /\ OnError(r, Settle(requests[r], "readError"),
             Error("TypeError", NetworkErrorMessage))

\* a catch block without the AbortError case
readAbortedAsError(r) ==
  /\ Reading(r) /\ requests[r].aborted
  /\ OnError(r, Settle(requests[r], "cancelled"),
             Error("AbortError", AbortMessage))

\* reader.read() rejected with AbortError: callbacks.onComplete(fullResponse)
readAborted(r) ==
  /\ Reading(r) /\ requests[r].aborted
  /\ OnComplete(r, Settle(requests[r], "cancelled"),
                requests[r].adapterFullResponse)

\* ------------------------------------------------------------------------
\* Specification
\* ------------------------------------------------------------------------
StoredIds == {conversations[i].id : i \in 1..Len(conversations)}

DisplayedMessageIds ==
  IF conversation = NoConversation THEN {}
  ELSE {conversation.messages[i].id : i \in 1..Len(conversation.messages)}

Next ==
  \/ handleNewChat
  \/ \E id \in StoredIds : handleSelectConversation(id)
  \/ handleStop
  \/ \E id \in StoredIds : handlePinConversation(id)
  \/ \E id \in StoredIds, t \in RenameTitles : handleRenameConversation(id, t)
  \/ dismissSystemPromptWarning
  \/ \E content \in UserTexts, n \in AttachmentCounts : handleSend(content, n)
  \/ \E id \in DisplayedMessageIds : handleRetry(id)
  \/ handleContinueWithoutSystemPrompt
  \/ \E r \in RequestIds : fetchOk(r)
  \/ \E r \in RequestIds, body \in ErrorBodies : responseNotOk(r, body)
  \/ \E r \in RequestIds : fetchFailed(r)
  \/ \E r \in RequestIds : noResponseBody(r)
  \/ \E r \in RequestIds : fetchAborted(r)
  \/ \E r \in RequestIds : readChunk(r)
  \/ \E r \in RequestIds : readDone(r)
  \/ \E r \in RequestIds : readFailed(r)
  \/ \E r \in RequestIds : readAborted(r)

Spec == Init /\ [][Next]_vars


SpecRestored == InitRestored /\ [][Next]_vars

\* ------------------------------------------------------------------------
\* Chat groups: lib/storage and the handlers of the sidebar
\* ------------------------------------------------------------------------
\* the stored conversations after moveConversationToGroup(conversationId,
\* groupId): groupId is None (undefined) or Some(group id)
moveConversationToGroup(list, conversationId, groupId) ==
  [i \in 1..Len(list) |->
     IF list[i].id = conversationId
     THEN [list[i] EXCEPT !.groupId = groupId]
     ELSE list[i]]

\* the stored conversations after deleteGroup(id): its members are ungrouped
deleteGroup(list, id) ==
  [i \in 1..Len(list) |->
     IF list[i].groupId = Some(id)
     THEN [list[i] EXCEPT !.groupId = None]
     ELSE list[i]]

\* what the sidebar handlers leave alone: the whole state of the page
sidebarFrame ==
  <<conversation, isLoading, streamingMessageId, error,
    systemPromptWarningOpen, sessionCost, selectedProvider, selectedModel,
    apiKeys, systemPromptPref, abortControllerRef, requests, sidebarOps,
    catalogVars, call, responseBody>>

\* Sidebar.handleCreateGroup: createGroup('New Group')
handleCreateGroup ==
  /\ ~AbortPending
  /\ nextId <= MaxIds
  /\ Cardinality(groups) < MaxGroups
  /\ groups' = groups \cup {nextId}
  /\ nextId' = nextId + 1
  /\ UNCHANGED <<sidebarFrame, conversations>>

\* Sidebar.handleMoveToGroup(id, groupId): the store only
handleMoveToGroup(id, groupId) ==
  /\ ~AbortPending
  /\ getConversation(conversations, id) # None
  /\ IF groupId = None THEN TRUE ELSE groupId[1] \in groups
  /\ conversations' = moveConversationToGroup(conversations, id, groupId)
  /\ UNCHANGED <<sidebarFrame, groups, nextId>>

\* Sidebar.confirmDeleteGroup: deleteGroup(deleteGroupId)
confirmDeleteGroup(id) ==
  /\ ~AbortPending
  /\ id \in groups
  /\ groups' = groups \ {id}
  /\ conversations' = deleteGroup(conversations, id)
  /\ UNCHANGED <<sidebarFrame, nextId>>

\* the page of Init with the OpenAI adapter
InitGroups == Init /\ selectedProvider = "openai"

\* the sidebar's group handlers beside a Send and its stream
NextGroups ==
  \/ \E id \in StoredIds : handleSelectConversation(id)
  \/ \E content \in UserTexts, n \in AttachmentCounts : handleSend(content, n)
  \/ \E r \in RequestIds : fetchOk(r)
  \/ \E r \in RequestIds : readChunk(r)
  \/ \E r \in RequestIds : readDone(r)
  \/ handleCreateGroup
  \/ \E id \in StoredIds, g \in {None} \cup {Some(k) : k \in groups} :
       handleMoveToGroup(id, g)
  \/ \E g \in groups : confirmDeleteGroup(g)

SpecGroups == InitGroups /\ [][NextGroups]_vars

\* the vendor request of r takes a step: the response arrives, fails, is
\* cancelled, delivers a chunk or ends
RequestStep(r) ==
  \/ fetchOk(r)
  \/ \E body \in ErrorBodies : responseNotOk(r, body)
  \/ fetchFailed(r)
  \/ noResponseBody(r)
  \/ fetchAborted(r)
  \/ readChunk(r)
  \/ readDone(r)
  \/ readFailed(r)
  \/ readAborted(r)

\* the page of Init with the Gemini adapter
InitLive == Init /\ selectedProvider = "gemini"

\* every vendor response eventually ends, fails or is cancelled
SpecLive ==
  InitLive /\ [][Next]_vars /\ WF_vars(\E r \in RequestIds : RequestStep(r))

\* the page of Init talking to a vendor whose response body carries lines
\* after the sentinel line
InitStream ==
  /\ conversation = NoConversation
  /\ isLoading = FALSE
  /\ streamingMessageId = None
  /\ error = None
  /\ systemPromptWarningOpen = FALSE
  /\ sessionCost = 0
  /\ selectedProvider \in Providers
  /\ selectedModel = ModelOf(selectedProvider)
  /\ apiKeys = {selectedProvider}
  /\ systemPromptPref \in SystemPromptPrefs
  /\ selectedProvider = "gemini" \/ systemPromptPref = <<>>
  /\ abortControllerRef = None
  /\ conversations = <<>>
  /\ requests = <<>>
  /\ nextId = 1
  /\ sidebarOps = 0
  /\ models = fetchModels(selectedProvider)
  /\ loadingModels = FALSE
  /\ modelRequests = <<>>
  /\ call = NoCall
  /\ responseBody = "sentinelFirst"
  /\ groups = {}

SpecStream == InitStream /\ [][Next]_vars

\* ------------------------------------------------------------------------
\* The model catalogue: the loadModels effect and the selectors of the page
\* ------------------------------------------------------------------------
chatVars == <<conversation, isLoading, streamingMessageId,
              systemPromptWarningOpen, sessionCost, systemPromptPref,
              abortControllerRef, conversations, requests, nextId,
              sidebarOps, call, responseBody, groups>>

\* one run of loadModels that reached adapter.fetchModels
NewModelRequest(providerId, model) ==
  [providerId |-> providerId,
   selectedModel |-> model,      \* selectedModel of the render of the effect
   phase |-> "fetch",            \* "fetch" or "done"
   outcome |-> "pending",
   statusText |-> None]          \* response.statusText of a failed request

ModelRequestIds == 1..Len(modelRequests)

\* the message of the Error fetchModels throws on a non-success response,
\* before response.statusText
ModelsErrorPrefix(providerId) ==
  CASE providerId = "openai" ->
         <<"F","a","i","l","e","d"," ","t","o"," ","f","e","t","c","h"," ",
           "O","p","e","n","A","I"," ","m","o","d","e","l","s",":"," ">>
    [] providerId = "xai" ->
         <<"F","a","i","l","e","d"," ","t","o"," ","f","e","t","c","h"," ",
           "x","A","I"," ","m","o","d","e","l","s",":"," ">>
    [] providerId = "groq" ->
         <<"F","a","i","l","e","d"," ","t","o"," ","f","e","t","c","h"," ",
           "G","r","o","q"," ","m","o","d","e","l","s",":"," ">>
    [] providerId = "openrouter" ->
         <<"F","a","i","l","e","d"," ","t","o"," ","f","e","t","c","h"," ",
           "O","p","e","n","R","o","u","t","e","r"," ","m","o","d","e","l",
           "s",":"," ">>
    [] providerId = "gemini" ->
         <<"F","a","i","l","e","d"," ","t","o"," ","f","e","t","c","h"," ",
           "G","e","m","i","n","i"," ","m","o","d","e","l","s",":"," ">>

\* the loadModels effect of a render with provider and model selected and
\* the keys stored
loadModels(providerId, model, keys) ==
  IF providerId \notin keys
  THEN /\ models' = <<>>
       /\ selectedModel' = <<>>
       /\ UNCHANGED <<loadingModels, error, modelRequests>>
  ELSE /\ loadingModels' = TRUE
       /\ error' = None
       /\ selectedModel' = model
       /\ modelRequests' = Append(modelRequests,
                                  NewModelRequest(providerId, model))
       /\ UNCHANGED models

\* the page after mount: keys, provider and model read from localStorage,
\* the loadModels effect of the first client render run
InitCatalog ==
  /\ conversation = NoConversation
  /\ isLoading = FALSE
  /\ streamingMessageId = None
  /\ systemPromptWarningOpen = FALSE
  /\ sessionCost = 0
  /\ selectedProvider \in Providers
  /\ apiKeys \in {{}, Providers \ {"groq"}}
  /\ systemPromptPref = <<>>
  /\ abortControllerRef = None
  /\ conversations = <<>>
  /\ requests = <<>>
  /\ nextId = 1
  /\ sidebarOps = 0
  /\ call = NoCall
  /\ responseBody = "sentinelLast"
  /\ groups = {}
  /\ models = <<>>
  /\ error = None
  /\ \E model \in {<<>>, ModelOf(selectedProvider)} :
       IF selectedProvider \in apiKeys
       THEN /\ loadingModels = TRUE
            /\ selectedModel = model
            /\ modelRequests = <<NewModelRequest(selectedProvider, model)>>
       ELSE /\ loadingModels = FALSE
            /\ selectedModel = <<>>
            /\ modelRequests = <<>>

\* the provider selector, for a provider that has a key
handleProviderChange(providerId) ==
  /\ providerId # selectedProvider
  /\ providerId \in apiKeys
  /\ Len(modelRequests) < MaxModelRequests
  /\ selectedProvider' = providerId
  /\ loadModels(providerId, <<>>, apiKeys)
  /\ UNCHANGED <<chatVars, apiKeys>>

\* the key dialog the provider selector opens for a provider without a key
handleSaveTempApiKey(providerId) ==
  /\ providerId \notin apiKeys
  /\ Len(modelRequests) < MaxModelRequests
  /\ apiKeys' = apiKeys \cup {providerId}
  /\ selectedProvider' = providerId
  /\ loadModels(providerId, <<>>, apiKeys')
  /\ UNCHANGED chatVars

\* the model selector, disabled while loading or without models
handleModelChange(model) ==
  /\ ~loadingModels
  /\ \E i \in 1..Len(models) : models[i] = model
  /\ model # selectedModel
  /\ selectedModel' = model
  /\ UNCHANGED <<chatVars, apiKeys, selectedProvider, error, catalogVars>>

ModelFetching(q) == q \in ModelRequestIds /\ modelRequests[q].phase = "fetch"

\* fetchModels resolved with the catalogue
fetchModelsOk(q) ==
  /\ ModelFetching(q)
  /\ LET fetchedModels == fetchModels(modelRequests[q].providerId)
     IN  /\ models' = fetchedModels
         /\ selectedModel' =
              IF Len(fetchedModels) > 0 /\ modelRequests[q].selectedModel = <<>>
              THEN fetchedModels[1] ELSE selectedModel
  /\ loadingModels' = FALSE
  /\ modelRequests' = [modelRequests EXCEPT ![q].phase = "done",
                                             ![q].outcome = "ok"]
  /\ UNCHANGED <<chatVars, apiKeys, selectedProvider, error>>

\* the catch and finally blocks of loadModels
loadModelsCatch(q, outcome, statusText, message) ==
  /\ error' = Some(LoadModelsErrorPrefix \o message)
  /\ models' = <<>>
  /\ loadingModels' = FALSE
  /\ modelRequests' = [modelRequests EXCEPT ![q].phase = "done",
                                             ![q].outcome = outcome,
                                             ![q].statusText = statusText]
  /\ UNCHANGED <<chatVars, apiKeys, selectedProvider, selectedModel>>

\* a catch block that keeps the model list
fetchModelsNotOkKeepingModels(q, statusText) ==
  /\ ModelFetching(q)
  /\ modelRequests[q].providerId # "anthropic"
  /\ error' = Some(LoadModelsErrorPrefix
                   \o ModelsErrorPrefix(modelRequests[q].providerId)
                   \o statusText)
  /\ loadingModels' = FALSE
  /\ modelRequests' = [modelRequests EXCEPT ![q].phase = "done",
                                             ![q].outcome = "httpError",
                                             ![q].statusText = Some(statusText)]
  /\ UNCHANGED <<chatVars, apiKeys, selectedProvider, selectedModel, models>>

\* if (!response.ok) throw new Error(`Failed to fetch <Vendor> models:
\* ${response.statusText}`); Anthropic's fetchModels sends no request
fetchModelsNotOk(q, statusText) ==
  /\ ModelFetching(q)
  /\ modelRequests[q].providerId # "anthropic"
  /\ loadModelsCatch(q, "httpError", Some(statusText),
                     ModelsErrorPrefix(modelRequests[q].providerId)
                       \o statusText)

\* the fetch of fetchModels rejects: network failure
fetchModelsFailed(q) ==
  /\ ModelFetching(q)
  /\ modelRequests[q].providerId # "anthropic"
  /\ loadModelsCatch(q, "networkError", None, FailedToFetchMessage)

NextCatalog ==
  \/ \E p \in Providers : handleProviderChange(p)
  \/ \E p \in Providers : handleSaveTempApiKey(p)
  \/ \E m \in UNION {CatalogIds(p) : p \in Providers} : handleModelChange(m)
  \/ \E q \in ModelRequestIds : fetchModelsOk(q)
  \/ \E q \in ModelRequestIds, t \in StatusTexts : fetchModelsNotOk(q, t)
  \/ \E q \in ModelRequestIds : fetchModelsFailed(q)

SpecCatalog == InitCatalog /\ [][NextCatalog]_vars

\* ------------------------------------------------------------------------
\* Library calls: one call of a function of lib/storage or of an adapter,
\* on arguments drawn from bounded sets, from the idle page
\* ------------------------------------------------------------------------
pageVars == <<conversation, isLoading, streamingMessageId, error,
              systemPromptWarningOpen, sessionCost, selectedProvider,
              selectedModel, apiKeys, systemPromptPref, abortControllerRef,
              requests, nextId, sidebarOps, catalogVars, responseBody, groups>>

TokenCounts == 0..MaxTokens

\* the adapters that have a static pricing table
TableProviders == {"openai", "xai", "groq", "gemini", "anthropic"}

TableOf(providerId) ==
  CASE providerId = "openai"    -> OPENAI_PRICING
    [] providerId = "xai"       -> XAI_PRICING
    [] providerId = "groq"      -> GROQ_PRICING
    [] providerId = "gemini"    -> GEMINI_PRICING
    [] providerId = "anthropic" -> ANTHROPIC_PRICING

\* the model ids that are keys of the adapter's pricing table
PricingKeys(providerId) ==
  IF providerId \in TableProviders
  THEN {TableOf(providerId)[i].key : i \in 1..Len(TableOf(providerId))}
  ELSE {}

\* adapter.estimateCost(inputTokens, outputTokens, modelId) about to run,
\* for a model of the adapter's catalogue or a model named as its table
\* names it
EstimateCostCalls ==
  UNION {{[fn |-> "estimateCost", providerId |-> p, inputTokens |-> i,
           outputTokens |-> o, modelId |-> m, result |-> None] :
            i \in TokenCounts, o \in TokenCounts,
            m \in CatalogIds(p) \cup PricingKeys(p)} :
         p \in Providers}

\* a text of n characters
TextOfLength(n) == [i \in 1..n |-> "a"]

\* estimateTokens(text, attachments) about to run; 0 attachments stands
\* for an absent and for an empty list
EstimateTokensCalls ==
  {[fn |-> "estimateTokens", text |-> TextOfLength(n), attachments |-> a,
    result |-> None] : n \in 0..MaxTextLen, a \in 0..MaxAttachments}

\* the conversation and the request of a Send of "hi" whose stream ends
SentConversation ==
  [createNewConversation(1, "openai", ModelOf("openai")) EXCEPT
     !.title = generateConversationTitle(<<"h","i">>),
     !.messages = <<UserMessage(2, <<"h","i">>, 1), AssistantPlaceholder(3)>>]

SentRequest ==
  NewRequest("send", SentConversation, 3,
             WithSystemPrompt(SentConversation,
                              <<UserMessage(2, <<"h","i">>, 1)>>,
                              SendSystemPrompt(<<>>)))

\* onComplete(response) of that request about to run
OnCompleteCalls ==
  {[fn |-> "onComplete", response |-> r, result |-> None] :
     r \in {Hel \o lo} \cup {TextOfLength(n) : n \in 0..MaxTextLen}}

\* getAdapter(providerId) about to run: a registered id, or another string
UnregisteredIds == {"", "mistral", "OpenAI", "constructor", "toString"}

GetAdapterCalls ==
  {[fn |-> "getAdapter", providerId |-> id, result |-> None] :
     id \in Providers \cup UnregisteredIds}

\* the conversations saved: MaxStoredIds ids, each before and after a
\* rename
SavedConversations ==
  {[createNewConversation(id, "openai", ModelOf("openai")) EXCEPT !.title = t] :
     id \in 1..MaxStoredIds, t \in {NewChatTitle} \cup RenameTitles}

\* a session of saveConversation calls on the store
StorageCalls == {[fn |-> "saveConversation", last |-> None, saves |-> 0]}

Roles == {"system", "user", "assistant"}

\* the i-th message of an outbound list, its text of length i
MessageAt(role, i) ==
  CASE role = "user"      -> UserMessage(i, TextOfLength(i), 0)
    [] role = "assistant" -> [AssistantPlaceholder(i) EXCEPT
                                !.content = TextOfLength(i)]
    [] role = "system"    -> SystemMessage(TextOfLength(i))

\* the outbound lists: at most MaxMessages messages, at most one of them
\* a system message
MessageLists ==
  {[i \in 1..Len(roles) |-> MessageAt(roles[i], i)] :
     roles \in {r \in UNION {[1..n -> Roles] : n \in 0..MaxMessages} :
                  Cardinality({i \in 1..Len(r) : r[i] = "system"}) <= 1}}

\* the request body of adapter.streamChat(messages, ...) about to be built
RequestBodyCalls ==
  {[fn |-> "requestBody", providerId |-> p, messages |-> msgs,
    result |-> None] : p \in Providers, msgs \in MessageLists}

InitLibrary ==
  /\ conversation = NoConversation
  /\ isLoading = FALSE
  /\ streamingMessageId = None
  /\ error = None
  /\ systemPromptWarningOpen = FALSE
  /\ sessionCost = 0
  /\ selectedProvider = "openai"
  /\ selectedModel = ModelOf(selectedProvider)
  /\ apiKeys = {selectedProvider}
  /\ systemPromptPref = <<>>
  /\ abortControllerRef = None
  /\ conversations = <<>>
  /\ requests = <<>>
  /\ nextId = 1
  /\ sidebarOps = 0
  /\ models = fetchModels(selectedProvider)
  /\ loadingModels = FALSE
  /\ modelRequests = <<>>
  /\ responseBody = "sentinelLast"
  /\ groups = {}
  /\ \/ call \in EstimateCostCalls
     \/ call \in EstimateTokensCalls
     \/ call \in OnCompleteCalls
     \/ call \in GetAdapterCalls
     \/ call \in StorageCalls
     \/ call \in RequestBodyCalls

Pending(fn) == call.fn = fn /\ call.result = None

estimateCostCall ==
  /\ Pending("estimateCost")
  /\ call' = [call EXCEPT !.result =
                Some(estimateCost(call.providerId, call.inputTokens,
                                  call.outputTokens, call.modelId))]
  /\ UNCHANGED <<pageVars, conversations>>

estimateTokensCall ==
  /\ Pending("estimateTokens")
  /\ call' = [call EXCEPT !.result =
                Some(estimateTokens(call.text, call.attachments))]
  /\ UNCHANGED <<pageVars, conversations>>

\* the setConversation updater of onComplete applied to the conversation
onCompleteCall ==
  /\ Pending("onComplete")
  /\ \E duration \in Durations :
       call' = [call EXCEPT !.result =
                  Some(CompleteUpdate(SentConversation, SentRequest,
                                      call.response, duration))]
  /\ UNCHANGED <<pageVars, conversations>>

getAdapterCall ==
  /\ Pending("getAdapter")
  /\ call' = [call EXCEPT !.result = Some(getAdapter(call.providerId))]
  /\ UNCHANGED <<pageVars, conversations>>

\* saveConversation(conv): the store is read, changed and written back
saveConversationCall(conv) ==
  /\ call.fn = "saveConversation"
  /\ call.saves < MaxSaves
  /\ conversations' = saveConversation(conversations, conv)
  /\ call' = [call EXCEPT !.last = Some(conv), !.saves = @ + 1]
  /\ UNCHANGED pageVars

requestBodyCall ==
  /\ Pending("requestBody")
  /\ call' = [call EXCEPT !.result =
                Some(requestBody(call.providerId, call.messages))]
  /\ UNCHANGED <<pageVars, conversations>>

NextLibrary ==
  \/ estimateCostCall
  \/ estimateTokensCall
  \/ onCompleteCall
  \/ getAdapterCall
  \/ \E conv \in SavedConversations : saveConversationCall(conv)
  \/ requestBodyCall

SpecLibrary == InitLibrary /\ [][NextLibrary]_vars

\* ------------------------------------------------------------------------
\* The read loop of streamChat on the text of the response body
\* ------------------------------------------------------------------------
\* the text of a delta object up to the content, and after it
DeltaPrefix ==
  <<"{","\"","c","h","o","i","c","e","s","\"",":","[","{","\"","d","e","l",
    "t","a","\"",":","{","\"","c","o","n","t","e","n","t","\"",":","\"">>

DeltaSuffix ==
  <<"\"","}","}","]","}">>

\* the body of a vendor response: the token lines "Hel" and "lo", then the
\* sentinel line
VendorStream ==
  <<"d","a","t","a",":"," ","{","\"","c","h","o","i","c","e","s","\"",":",
    "[","{","\"","d","e","l","t","a","\"",":","{","\"","c","o","n","t","e",
    "n","t","\"",":","\"","H","e","l","\"","}","}","]","}","\n","d","a","t",
    "a",":"," ","{","\"","c","h","o","i","c","e","s","\"",":","[","{","\"",
    "d","e","l","t","a","\"",":","{","\"","c","o","n","t","e","n","t","\"",
    ":","\"","l","o","\"","}","}","]","}","\n","d","a","t","a",":"," ","[",
    "D","O","N","E","]","\n">>

\* s.startsWith(prefix)
startsWith(s, prefix) ==
  Len(prefix) <= Len(s) /\ SubSeq(s, 1, Len(prefix)) = prefix

\* text.split('\n')
split(text) ==
  LET breaks == {i \in 1..Len(text) : text[i] = "\n"}
      starts == {0} \cup breaks
      next(i) == IF \E j \in breaks : j > i
                 THEN CHOOSE j \in breaks :
                        j > i /\ \A k \in breaks : k > i => j <= k
                 ELSE Len(text) + 1
      nth(n) == CHOOSE i \in starts :
                  Cardinality({j \in starts : j < i}) = n - 1
  IN  [n \in 1..Cardinality(starts) |->
         SubSeq(text, nth(n) + 1, next(nth(n)) - 1)]

\* one line of a chunk as the loop treats it: JSON.parse accepts a
\* complete delta object and throws on every fragment of one
parseLine(line) ==
  IF ~startsWith(line, <<"d","a","t","a",":"," ">>) THEN [type |-> "other", text |-> <<>>]
  ELSE LET jsonStr == SubSeq(line, 7, Len(line))
           inner == SubSeq(jsonStr, Len(DeltaPrefix) + 1,
                           Len(jsonStr) - Len(DeltaSuffix))
       IN  IF trim(jsonStr) = <<"[","D","O","N","E","]">> THEN DoneLine
           ELSE IF /\ Len(jsonStr) >= Len(DeltaPrefix) + Len(DeltaSuffix)
                   /\ startsWith(jsonStr, DeltaPrefix)
                   /\ SubSeq(jsonStr, Len(jsonStr) - Len(DeltaSuffix) + 1,
                             Len(jsonStr)) = DeltaSuffix
                   /\ \A i \in 1..Len(inner) : inner[i] \notin {"\"", "\\", "\n"}
                THEN TokenLine(inner)
                ELSE InvalidLine

\* the lines of a chunk of text
linesOf(chunk) == [n \in 1..Len(split(chunk)) |-> parseLine(split(chunk)[n])]

\* the positions at which the network cuts the body into reads
RECURSIVE CutSets(_)
CutSets(n) ==
  IF n = 0 THEN {{}}
  ELSE CutSets(n - 1)
         \cup {c \cup {i} : c \in CutSets(n - 1),
                             i \in 1..(Len(VendorStream) - 1)}

\* the chunks reader.read() returns when the body is cut at the positions
ChunksOf(text, cuts) ==
  LET bounds == {0} \cup cuts
      nth(n) == CHOOSE i \in bounds :
                  Cardinality({j \in bounds : j < i}) = n - 1
      endOf(i) == IF \E j \in cuts : j > i
                  THEN CHOOSE j \in cuts :
                         j > i /\ \A k \in cuts : k > i => j <= k
                  ELSE Len(text)
  IN  [n \in 1..Cardinality(bounds) |-> SubSeq(text, nth(n) + 1, endOf(nth(n)))]

\* streamChat about to read the chunks of a response body
StreamChatCalls ==
  {[fn |-> "streamChat", chunks |-> ChunksOf(VendorStream, cuts),
    fullResponse |-> <<>>, tokens |-> <<>>, result |-> None] :
     cuts \in CutSets(MaxSplits)}

InitDecode ==
  /\ conversation = NoConversation
  /\ isLoading = FALSE
  /\ streamingMessageId = None
  /\ error = None
  /\ systemPromptWarningOpen = FALSE
  /\ sessionCost = 0
  /\ selectedProvider = "xai"
  /\ selectedModel = ModelOf(selectedProvider)
  /\ apiKeys = {selectedProvider}
  /\ systemPromptPref = <<>>
  /\ abortControllerRef = None
  /\ conversations = <<>>
  /\ requests = <<>>
  /\ nextId = 1
  /\ sidebarOps = 0
  /\ models = fetchModels(selectedProvider)
  /\ loadingModels = FALSE
  /\ modelRequests = <<>>
  /\ responseBody = "sentinelLast"
  /\ groups = {}
  /\ call \in StreamChatCalls

\* the texts of the token lines that reach onToken: if (text) { ... }
tokensOf(lines) ==
  LET delivered == SelectSeq(lines, LAMBDA l : l.type = "token" /\ l.text # <<>>)
  IN  [n \in 1..Len(delivered) |-> delivered[n].text]

RECURSIVE join(_)
join(texts) == IF texts = <<>> THEN <<>> ELSE Head(texts) \o join(Tail(texts))

\* reader.read() returned the next chunk: the for loop over its lines
streamChatRead ==
  /\ Pending("streamChat")
  /\ call.chunks # <<>>
  /\ LET texts == tokensOf(linesOf(Head(call.chunks)))
     IN  call' = [call EXCEPT !.chunks = Tail(@),
                              !.tokens = @ \o texts,
                              !.fullResponse = @ \o join(texts)]
  /\ UNCHANGED <<pageVars, conversations>>

\* reader.read() returned done: callbacks.onComplete(fullResponse)
streamChatDone ==
  /\ Pending("streamChat")
  /\ call.chunks = <<>>
  /\ call' = [call EXCEPT !.result = Some(call.fullResponse)]
  /\ UNCHANGED <<pageVars, conversations>>

NextDecode ==
  \/ streamChatRead
  \/ streamChatDone

SpecDecode == InitDecode /\ [][NextDecode]_vars

\* ------------------------------------------------------------------------
\* Properties
\* ------------------------------------------------------------------------
Settled(r) == requests[r].phase = "done"

TerminalCalls(r) == requests[r].nComplete + requests[r].nError

BodyOutcomes == {"complete", "cancelled", "readError"}

PreBodyOutcomes == {"httpError", "networkError", "noBody", "fetchCancelled"}

C2_AtMostOneInFlight ==
  Cardinality({r \in RequestIds : InFlight(r)}) <= 1

\* C3: for every adapter, a cancellation that fires while the body is read
\* ends the call with onComplete, called once with exactly the text of the
\* tokens delivered before it, and never with onError.
C3_CancelMidStreamCompletes ==
  \A r \in RequestIds :
    requests[r].outcome = "cancelled" =>
      /\ requests[r].nComplete = 1
      /\ requests[r].nError = 0
      /\ ~requests[r].thrown
      /\ requests[r].completedWith = Some(requests[r].delivered)

\* a request cancelled after its first token
C3_Witness ==
  \E r \in RequestIds :
    /\ requests[r].outcome = "cancelled"
    /\ requests[r].delivered = Hel
    /\ requests[r].completedWith = Some(Hel)

\* the step settles request r, leaving it with one of the outcomes
Settles(r, outcomes) ==
  /\ r \in RequestIds
  /\ InFlight(r)
  /\ requests'[r].phase = "done"
  /\ requests'[r].outcome \in outcomes

StoredOf(list, id) == getConversation(list, id)[1]

MessageOf(conv, id) == conv.messages[findIndex(conv.messages, id)]

\* the message is finalized with the response text
Finalized(m, response) ==
  /\ m.content = response
  /\ m.tokenCount = Some(estimateTokens(response, 0))
  /\ m.timing # None
  /\ m.model # None

\* C4 (as claimed): when a request cancelled by Stop while its body is read
\* settles, isLoading and streamingMessageId are clear, the placeholder of
\* the request's conversation is finalized with the partial text, the
\* conversation is persisted so, and the cost of the partial reply is added
\* to that conversation's totalCost.
C4_StopFinalizesPartialReply ==
  [][\A r \in RequestIds :
       Settles(r, {"cancelled"}) =>
         LET req == requests[r]
             id == req.conversationId
             before == StoredOf(conversations, id)
             after == StoredOf(conversations', id)
         IN  /\ ~isLoading' /\ streamingMessageId' = None
             /\ findIndex(after.messages, req.placeholderId) > 0
             /\ Finalized(MessageOf(after, req.placeholderId), req.delivered)
             /\ after.totalCost
                  = before.totalCost + RequestCost(req, req.delivered)]_vars

ErrorOutcomes == {"httpError", "networkError", "noBody", "readError"}

\* C5: the step in which a Send, Retry or Continue request ends with an
\* error (thrown before the stream starts, or onError while the body is
\* read) clears isLoading and streamingMessageId and leaves sessionCost and
\* the conversation, in memory and in the store, as they were: no cost is
\* added, the placeholder gets no tokenCount or timing and keeps the text
\* already written to it.
C5_ErrorClearsMarkersOnly ==
  [][\A r \in RequestIds :
       Settles(r, ErrorOutcomes) =>
         /\ ~isLoading' /\ streamingMessageId' = None
         /\ sessionCost' = sessionCost
         /\ conversations' = conversations
         /\ conversation' = conversation]_vars

\* a request whose read failed after its first token: the placeholder keeps
\* the token's text and has no tokenCount or timing
C5_Witness ==
  \E r \in RequestIds :
    /\ requests[r].outcome = "readError"
    /\ requests[r].delivered = Hel
    /\ ~isLoading /\ streamingMessageId = None
    /\ conversation # NoConversation
    /\ findIndex(conversation.messages, requests[r].placeholderId) > 0
    /\ LET m == MessageOf(conversation, requests[r].placeholderId)
       IN  m.content = Hel /\ m.tokenCount = None /\ m.timing = None
    /\ conversation.totalCost = 0 /\ sessionCost = 0

C7_RejectionNeverGenericError ==
  error = None \/ ~includes(error[1], DeveloperInstructionText)

\* the step starts a Continue request
StartsContinue ==
  /\ Len(requests') = Len(requests) + 1
  /\ requests'[Len(requests')].kind = "continue"

\* the step calls onToken or onComplete of request r
CallsBack(r) ==
  \/ requests'[r].delivered # requests[r].delivered
  \/ requests'[r].nComplete # requests[r].nComplete

\* C8: Continue-without-system-prompt appends no message and generates no
\* id; its request updates the message that was the last, assistant, message
\* when Continue started, and its outbound list is the conversation's
\* messages without that placeholder and without any system message; every
\* token and the finalization of the request change no message but that
\* one, whose content becomes the text accumulated so far.
C8_ContinueReusesPlaceholder ==
  [][/\ StartsContinue =>
          LET req == requests'[Len(requests')]
              n == Len(conversation.messages)
          IN  /\ conversation' = conversation
              /\ conversations' = conversations
              /\ nextId' = nextId
              /\ n > 0
              /\ conversation.messages[n].role = "assistant"
              /\ req.placeholderId = conversation.messages[n].id
              /\ streamingMessageId' = Some(req.placeholderId)
              /\ req.apiMessages = SubSeq(conversation.messages, 1, n - 1)
              /\ ~HasSystemMessage(req.apiMessages)
     /\ \A r \in RequestIds :
          (requests[r].kind = "continue" /\ CallsBack(r)
             /\ conversation # NoConversation) =>
            /\ Len(conversation'.messages) = Len(conversation.messages)
            /\ nextId' = nextId
            /\ \A i \in 1..Len(conversation.messages) :
                 IF conversation.messages[i].id = requests[r].placeholderId
                 THEN /\ conversation'.messages[i].id = requests[r].placeholderId
                      /\ conversation'.messages[i].role = "assistant"
                      /\ conversation'.messages[i].content
                           = requests'[r].fullResponse
                 ELSE conversation'.messages[i] = conversation.messages[i]]_vars

\* a Continue request that completed: the conversation still has the user
\* message and the one placeholder, now holding the whole reply
C8_Witness ==
  \E r \in RequestIds :
    /\ requests[r].kind = "continue"
    /\ requests[r].outcome = "complete"
    /\ conversation # NoConversation
    /\ conversation.id = requests[r].conversationId
    /\ Len(conversation.messages) = 2
    /\ conversation.messages[2].id = requests[r].placeholderId
    /\ Finalized(conversation.messages[2], Hel \o lo)

\* a Continue request for the conversation has completed or is in flight
ContinueSucceededOrRunning(id) ==
  \E q \in RequestIds :
    /\ requests[q].kind = "continue"
    /\ requests[q].conversationId = id
    /\ InFlight(q) \/ requests[q].nComplete = 1

\* C9 (as claimed): when a Continue request of a conversation has ended
\* with an error, and no Continue request of that conversation has
\* succeeded or is in flight, disableSystemPrompt is set on the conversation
\* neither in memory nor in the store.
C9_FlagNotSetAfterError ==
  \A r \in RequestIds :
    (/\ requests[r].kind = "continue"
     /\ requests[r].outcome \in ErrorOutcomes
     /\ ~ContinueSucceededOrRunning(requests[r].conversationId)) =>
      /\ conversation.id = requests[r].conversationId
           => ~Truthy(conversation.disableSystemPrompt)
      /\ \A i \in 1..Len(conversations) :
           conversations[i].id = requests[r].conversationId
             => ~Truthy(conversations[i].disableSystemPrompt)

\* C10 (as claimed): once disableSystemPrompt is true on a conversation it
\* stays true on it, in memory, while it is displayed, and in the store.
C10_FlagPermanent ==
  [][/\ (conversation # NoConversation
           /\ Truthy(conversation.disableSystemPrompt)
           /\ conversation'.id = conversation.id)
          => Truthy(conversation'.disableSystemPrompt)
     /\ \A i \in 1..Len(conversations) :
          Truthy(conversations[i].disableSystemPrompt) =>
            /\ getConversation(conversations', conversations[i].id) # None
            /\ Truthy(StoredOf(conversations',
                               conversations[i].id).disableSystemPrompt)]_vars

\* the step issues a request of the kind
Starts(kind) ==
  /\ Len(requests') = Len(requests) + 1
  /\ requests'[Len(requests')].kind = kind

\* the request the step issues
Issued == requests'[Len(requests')]

\* the configured system prompt if it is not blank, else the fallback
ConfiguredOr(fallback) ==
  IF \E i \in 1..Len(systemPromptPref) : systemPromptPref[i] # " "
  THEN systemPromptPref ELSE fallback

MessageIds(msgs) == {msgs[i].id : i \in 1..Len(msgs)}

IsEmptyPlaceholder(m, id) ==
  /\ m.id = id /\ m.role = "assistant" /\ m.content = <<>>
  /\ m.tokenCount = None /\ m.timing = None /\ m.model = None

\* C11: a Send on a conversation whose disableSystemPrompt is unset (or on
\* no conversation yet) appends, in the step that issues the request, the
\* user message and then one empty assistant placeholder, and persists the
\* conversation so; its outbound list is one system message, holding the
\* configured prompt if that is not blank and the built-in fallback
\* otherwise, followed by the prior history and the new user message,
\* without the placeholder.
C11_SendAppendsAndBuildsOutbound ==
  [][Starts("send") =>
       LET prior == IF conversation = NoConversation THEN <<>>
                    ELSE conversation.messages
           flag == IF conversation = NoConversation THEN None
                   ELSE conversation.disableSystemPrompt
           n == Len(prior)
           after == conversation'.messages
       IN  ~Truthy(flag) =>
             /\ Len(after) = n + 2
             /\ SubSeq(after, 1, n) = prior
             /\ after[n + 1].role = "user"
             /\ after[n + 1].content \in UserTexts
             /\ IsEmptyPlaceholder(after[n + 2], Issued.placeholderId)
             /\ streamingMessageId' = Some(Issued.placeholderId)
             /\ getConversation(conversations', conversation'.id)
                  = Some(conversation')
             /\ Issued.conversationId = conversation'.id
             /\ Len(Issued.apiMessages) = n + 2
             /\ Issued.apiMessages[1].role = "system"
             /\ Issued.apiMessages[1].content = ConfiguredOr(SendFallbackPrompt)
             /\ SubSeq(Issued.apiMessages, 2, n + 2) = SubSeq(after, 1, n + 1)
             /\ ~(Issued.placeholderId \in MessageIds(Issued.apiMessages))]_vars

\* a Send issued with a blank configured prompt on a conversation that
\* already holds an earlier exchange: the outbound list is the fallback
\* system message, the two earlier messages and the new user message
C11_Witness ==
  \E r \in RequestIds :
    /\ requests[r].kind = "send" /\ requests[r].phase = "fetch"
    /\ systemPromptPref = <<" ">>
    /\ conversation # NoConversation
    /\ conversation.id = requests[r].conversationId
    /\ Len(conversation.messages) = 4
    /\ Len(requests[r].apiMessages) = 4
    /\ requests[r].apiMessages[1].content = SendFallbackPrompt
    /\ IsEmptyPlaceholder(conversation.messages[4], requests[r].placeholderId)

\* C12: a Send or a Retry on a conversation whose disableSystemPrompt is
\* true issues a request whose outbound list has no message with role
\* system, so that the vendor request carries neither a system message nor
\* a system-instruction field.
C12_NoSystemMessageWhenDisabled ==
  [][(/\ Starts("send") \/ Starts("retry")
      /\ conversation # NoConversation
      /\ Truthy(conversation.disableSystemPrompt)) =>
       /\ Issued.apiMessages # <<>>
       /\ \A i \in 1..Len(Issued.apiMessages) :
            Issued.apiMessages[i].role \in {"user", "assistant"}
       /\ ~HasSystemMessage(vendorMessages(Issued.providerId,
                                           Issued.apiMessages))
       /\ systemField(Issued.providerId, Issued.apiMessages) = None]_vars

\* a Send and a Retry pending on the restored conversation, whose flag is
\* set: neither outbound list has a system message
C12_Witness ==
  \E r, q \in RequestIds :
    /\ requests[r].kind = "send" /\ requests[r].phase = "fetch"
    /\ requests[q].kind = "retry" /\ requests[q].phase = "fetch"
    /\ conversation # NoConversation
    /\ Truthy(conversation.disableSystemPrompt)
    /\ requests[r].conversationId = conversation.id
    /\ requests[q].conversationId = conversation.id
    /\ requests[r].apiMessages # <<>> /\ requests[q].apiMessages # <<>>
    /\ systemField("gemini", requests[r].apiMessages) = None
    /\ systemField("gemini", requests[q].apiMessages) = None

\* C13: the step in which Retry issues its request leaves the conversation,
\* in memory and in the store, with the messages up to and including a user
\* message of the old list, followed by one new empty assistant placeholder
\* whose id is fresh; the later messages are gone, and the outbound history
\* (the outbound list without the system message) is that same prefix.
C13_RetryTruncatesAfterTarget ==
  [][Starts("retry") =>
       LET old == conversation.messages
           after == conversation'.messages
           n == Len(after) - 1
       IN  /\ conversation # NoConversation
           /\ n \in 1..Len(old)
           /\ SubSeq(after, 1, n) = SubSeq(old, 1, n)
           /\ old[n].role = "user"
           /\ IsEmptyPlaceholder(after[n + 1], Issued.placeholderId)
           /\ ~(Issued.placeholderId \in MessageIds(old))
           /\ Issued.placeholderId = nextId
           /\ conversation' = [conversation EXCEPT !.messages = after]
           /\ getConversation(conversations', conversation.id)
                = Some(conversation')
           /\ SelectSeq(Issued.apiMessages, LAMBDA m : m.role # "system")
                = SubSeq(old, 1, n)]_vars

\* a Retry issued after the Send of the same conversation completed: the
\* finalized reply is discarded and the list is the user message and the
\* new placeholder
C13_Witness ==
  \E r, q \in RequestIds :
    /\ requests[q].kind = "send" /\ requests[q].outcome = "complete"
    /\ requests[r].kind = "retry" /\ requests[r].phase = "fetch"
    /\ requests[r].conversationId = requests[q].conversationId
    /\ conversation # NoConversation
    /\ conversation.id = requests[r].conversationId
    /\ Len(conversation.messages) = 2
    /\ conversation.messages[1].role = "user"
    /\ IsEmptyPlaceholder(conversation.messages[2], requests[r].placeholderId)
    /\ ~(requests[q].placeholderId \in MessageIds(conversation.messages))
    /\ getConversation(conversations, conversation.id) = Some(conversation)

\* C14 (as claimed): the request Retry issues carries a system message
\* exactly when disableSystemPrompt is unset on the conversation, and its
\* content is the one Send synthesizes for the same preferences.
C14_RetryReplaysSendPolicy ==
  [][Starts("retry") =>
       /\ HasSystemMessage(Issued.apiMessages)
            <=> ~Truthy(conversation.disableSystemPrompt)
       /\ HasSystemMessage(Issued.apiMessages) =>
            Issued.apiMessages[1].content = SendSystemPrompt(systemPromptPref)]_vars

PlaceholderCount(msgs, id) ==
  Cardinality({i \in 1..Len(msgs) : msgs[i].id = id})

\* C16 (as claimed): for each request in flight, the message its callbacks
\* update occurs exactly once in the message list of the request's
\* conversation, as displayed and as stored.
C16_OnePlaceholderPerRequest ==
  \A r \in RequestIds :
    InFlight(r) =>
      /\ conversation.id = requests[r].conversationId =>
           PlaceholderCount(conversation.messages, requests[r].placeholderId) = 1
      /\ \A i \in 1..Len(conversations) :
           conversations[i].id = requests[r].conversationId =>
             PlaceholderCount(conversations[i].messages,
                              requests[r].placeholderId) = 1

\* C17 (as claimed): the step in which a request completes on natural end
\* of the stream is its only finalization and sets, in the request's
\* conversation as stored, the placeholder's content to the full response
\* with tokenCount, timing and model, adds the request's cost to that
\* conversation's totalCost and to the session cost; no step lowers the
\* totalCost of a stored conversation.
C17_FinalizationOnceAndWhole ==
  [][/\ \A r \in RequestIds :
          Settles(r, {"complete"}) =>
            LET req == requests[r]
                id == req.conversationId
                cost == RequestCost(req, req.delivered)
            IN  /\ requests'[r].nComplete = 1
                /\ sessionCost' = sessionCost + cost
                /\ getConversation(conversations', id) # None
                /\ findIndex(StoredOf(conversations', id).messages,
                             req.placeholderId) > 0
                /\ Finalized(MessageOf(StoredOf(conversations', id),
                                       req.placeholderId), req.delivered)
                /\ StoredOf(conversations', id).totalCost
                     = StoredOf(conversations, id).totalCost + cost
     /\ \A i \in 1..Len(conversations) :
          /\ getConversation(conversations', conversations[i].id) # None
          /\ StoredOf(conversations', conversations[i].id).totalCost
               >= conversations[i].totalCost]_vars

IsPrefix(p, t) == Len(p) <= Len(t) /\ SubSeq(t, 1, Len(p)) = p

Displays(conv, id) ==
  conv # NoConversation /\ findIndex(conv.messages, id) > 0

\* C18 (as claimed): the tokens of a request are applied in stream order
\* by concatenation: each onToken step extends the delivered text at its
\* end and leaves the placeholder, when it is displayed, holding exactly the
\* text delivered so far; and at every moment while the request is in
\* flight its placeholder, when displayed, holds a prefix of the text the
\* request has delivered, never text that is not made of its tokens.
C18_TokensAppliedInOrder ==
  [][\A r \in RequestIds :
       LET id == requests[r].placeholderId
       IN  /\ requests'[r].delivered # requests[r].delivered =>
                /\ IsPrefix(requests[r].delivered, requests'[r].delivered)
                /\ Len(requests'[r].delivered) > Len(requests[r].delivered)
                /\ Displays(conversation, id) =>
                     MessageOf(conversation', id).content
                       = requests'[r].delivered
           /\ (/\ InFlight(r) /\ requests'[r].phase # "done"
               /\ Displays(conversation', id)) =>
                IsPrefix(MessageOf(conversation', id).content,
                         requests'[r].delivered)]_vars

\* C19: for every adapter, a call that ended on natural end of the stream
\* has called onComplete once, with the concatenation, in order, of the
\* texts it passed to onToken, and has not called onError.
C19_CompleteWithConcatenation ==
  \A r \in RequestIds :
    requests[r].outcome = "complete" =>
      /\ requests[r].nComplete = 1
      /\ requests[r].nError = 0
      /\ requests[r].completedWith = Some(requests[r].delivered)
      /\ requests[r].adapterFullResponse = requests[r].delivered

\* the lines "Hel" and "lo" were delivered and onComplete got "Hello"
C19_Witness ==
  \E r \in RequestIds :
    /\ requests[r].outcome = "complete"
    /\ requests[r].delivered = Hel \o lo
    /\ requests[r].completedWith = Some(<<"H","e","l","l","o">>)
    /\ requests[r].nComplete = 1

\* C20 (as claimed): a step in which a callback of a request runs (onToken
\* or onComplete) changes no stored conversation other than the request's,
\* creates no stored record, and leaves the displayed conversation as it is
\* when that is not the request's.
C20_NoCrossConversationEffect ==
  [][\A r \in RequestIds :
       (InFlight(r) /\ CallsBack(r)) =>
         /\ \A i \in 1..Len(conversations) :
              conversations[i].id # requests[r].conversationId =>
                getConversation(conversations', conversations[i].id)
                  = Some(conversations[i])
         /\ Len(conversations') = Len(conversations)
         /\ conversation.id # requests[r].conversationId =>
              conversation' = conversation]_vars

\* ------------------------------------------------------------------------
\* Properties of the library calls
\* ------------------------------------------------------------------------
Returned(fn) == call.fn = fn /\ call.result # None

\* the table entries whose key the model id contains
ContainedKeys(providerId, modelId) ==
  {i \in 1..Len(TableOf(providerId)) :
     includes(modelId, TableOf(providerId)[i].key)}

Least(S) == CHOOSE i \in S : \A k \in S : i <= k

CostAt(inputTokens, outputTokens, tier) ==
  inputTokens * tier.input + outputTokens * tier.output

\* C21: for every adapter that has a static pricing table, estimateCost
\* prices a model id with the entry of the first table key, in declaration
\* order, that the id contains: when the id contains several keys the
\* earliest declared one is used, never a later one.
C21_FirstContainedKeyWins ==
  (Returned("estimateCost") /\ call.providerId \in TableProviders) =>
    LET hits == ContainedKeys(call.providerId, call.modelId)
    IN  hits # {} =>
          call.result = Some(CostAt(call.inputTokens, call.outputTokens,
                                    TableOf(call.providerId)[Least(hits)]))

\* "gpt-4o-mini" contains the keys gpt-4o, gpt-4o-mini and gpt-4 and was
\* priced with the entry of gpt-4o, the earliest one
C21_Witness ==
  /\ Returned("estimateCost")
  /\ call.providerId = "openai"
  /\ call.modelId = ModelOf("openai")
  /\ ContainedKeys("openai", call.modelId) = {1, 2, 4}
  /\ call.inputTokens = 1 /\ call.outputTokens = 1
  /\ call.result = Some(2500 + 10000)

\* the default tiers, in thousandths of a dollar per million tokens
DefaultTier(providerId) ==
  CASE providerId = "openrouter" -> [input |-> 1000, output |-> 2000]
    [] providerId = "openai"     -> [input |-> 2500, output |-> 10000]
    [] providerId = "xai"        -> [input |-> 2000, output |-> 10000]
    [] providerId = "groq"       -> [input |-> 100, output |-> 100]
    [] providerId = "gemini"     -> [input |-> 150, output |-> 600]
    [] providerId = "anthropic"  -> [input |-> 3000, output |-> 15000]

UsesDefaultTier ==
  /\ call.result = Some(CostAt(call.inputTokens, call.outputTokens,
                               DefaultTier(call.providerId)))
  /\ DefaultTier(call.providerId).input > 0
  /\ DefaultTier(call.providerId).output > 0

VendorPrefix(providerId) ==
  CASE providerId = "gemini"    -> <<"g","e","m","i","n","i","-">>
    [] providerId = "anthropic" -> <<"c","l","a","u","d","e","-">>
    [] OTHER                    -> <<>>

\* the table entries whose key, without the vendor prefix, the model id
\* contains
ContainedKeyStems(providerId, modelId) ==
  {i \in 1..Len(TableOf(providerId)) :
     LET key == TableOf(providerId)[i].key
         n == Len(VendorPrefix(providerId))
     IN  includes(modelId, SubSeq(key, n + 1, Len(key)))}

C23_CostMonotone ==
  Returned("estimateCost") =>
    /\ \A i \in TokenCounts, o \in TokenCounts :
         (i >= call.inputTokens /\ o >= call.outputTokens) =>
           estimateCost(call.providerId, i, o, call.modelId) >= call.result[1]
    /\ estimateCost(call.providerId, 0, 0, call.modelId) = 0
    /\ (call.inputTokens = 0 /\ call.outputTokens = 0) => call.result = Some(0)

\* a cost was computed for (1, 1) and the cost of (2, 1) and of (1, 2) is
\* not lower
C23_Witness ==
  /\ Returned("estimateCost")
  /\ call.providerId = "anthropic"
  /\ call.inputTokens = 1 /\ call.outputTokens = 1
  /\ call.result[1] > 0
  /\ estimateCost(call.providerId, 2, 1, call.modelId) > call.result[1]
  /\ estimateCost(call.providerId, 1, 2, call.modelId) > call.result[1]

\* the least k with 4 * k >= n
QuarterCeiling(n) == CHOOSE k \in 0..n : 4 * k >= n /\ 4 * (k - 1) < n

\* C24: estimateTokens(text, attachments) is ceil(length(text) / 4) plus
\* 1000 per attachment, an absent attachment list counting as zero; and the
\* tokenCount stored on a finalized assistant message is that value for the
\* full response text, with no attachment ("Hello" gives 2).
C24_TokenHeuristic ==
  /\ Returned("estimateTokens") =>
       call.result = Some(QuarterCeiling(Len(call.text))
                          + 1000 * call.attachments)
  /\ Returned("onComplete") =>
       LET m == MessageOf(call.result[1], SentRequest.placeholderId)
       IN  /\ m.content = call.response
           /\ m.tokenCount = Some(QuarterCeiling(Len(call.response)))

\* the response "Hello" was finalized with tokenCount 2
C24_Witness ==
  /\ Returned("onComplete")
  /\ call.response = <<"H","e","l","l","o">>
  /\ MessageOf(call.result[1], 3).role = "assistant"
  /\ MessageOf(call.result[1], 3).tokenCount = Some(2)

\* C25 (as claimed): getAdapter returns, for each of the six registered
\* provider ids, the adapter whose providerId is the requested id, and
\* fails with an unknown-provider error for every id that is not
\* registered.
C25_GetAdapterPureLookup ==
  Returned("getAdapter") =>
    IF call.providerId \in Providers
    THEN /\ ~call.result[1].threw
         /\ call.result[1].value = [providerId |-> call.providerId]
    ELSE /\ call.result[1].threw
         /\ call.result[1].value = <<"Unknown provider: ", call.providerId>>

\* a step that saves a conversation
Saves == call'.fn = "saveConversation" /\ call'.saves = call.saves + 1

IdsOf(list) == {list[i].id : i \in 1..Len(list)}

\* C26: after saveConversation(c), getConversation(c.id) returns c; saving
\* c again leaves the store as it is (a second save in a row changes
\* nothing); the store holds at most one record per id; and no record with
\* another id is changed or removed.
C26_SaveIdempotentLastWins ==
  [][Saves =>
       LET c == call'.last[1]
       IN  /\ getConversation(conversations', c.id) = Some(c)
           /\ saveConversation(conversations', c) = conversations'
           /\ call.last = Some(c) => conversations' = conversations
           /\ Cardinality(IdsOf(conversations')) = Len(conversations')
           /\ IdsOf(conversations') = IdsOf(conversations) \cup {c.id}
           /\ \A i \in 1..Len(conversations) :
                conversations[i].id # c.id =>
                  getConversation(conversations', conversations[i].id)
                    = Some(conversations[i])]_vars

\* conversation 1 was saved, then conversation 2, then conversation 1
\* renamed: the store holds two records, the renamed one in place
C26_Witness ==
  /\ call.fn = "saveConversation" /\ call.saves = 3
  /\ Len(conversations) = 2
  /\ conversations[1].id = 2 /\ conversations[2].id = 1
  /\ call.last = Some(conversations[2])
  /\ conversations[2].title \in RenameTitles

\* the number of messages up to the i-th that are not system messages
Rank(msgs, i) == Cardinality({j \in 1..i : msgs[j].role # "system"})

\* C30: the OpenAI-compatible adapters pass user, assistant and system
\* roles through unchanged and in order, with no top-level system field;
\* the Anthropic and Gemini adapters send no message with role system and
\* put the system message's content in the top-level system field, present
\* only when a system message exists; Gemini maps assistant to model and
\* user to user, Anthropic keeps both; the non-system messages keep their
\* relative order and their texts.
C30_RoleNormalization ==
  Returned("requestBody") =>
    LET p == call.providerId
        msgs == call.messages
        body == call.result[1]
    IN  IF p \in {"openai", "xai", "groq", "openrouter"}
        THEN /\ body.messages = [i \in 1..Len(msgs) |->
                                   [role |-> msgs[i].role,
                                    content |-> msgs[i].content]]
             /\ body.system = None
        ELSE /\ Len(body.messages) = Rank(msgs, Len(msgs))
             /\ \A j \in 1..Len(body.messages) :
                  body.messages[j].role # "system"
             /\ \A i \in 1..Len(msgs) :
                  /\ msgs[i].role = "system" =>
                       body.system = Some(msgs[i].content)
                  /\ msgs[i].role # "system" =>
                       body.messages[Rank(msgs, i)] =
                         [role |-> IF p = "gemini" /\ msgs[i].role = "assistant"
                                   THEN "model" ELSE msgs[i].role,
                          content |-> msgs[i].content]
             /\ (\A i \in 1..Len(msgs) : msgs[i].role # "system") =>
                  body.system = None

\* Gemini was given (user, system, assistant): it sends (user, model) and
\* the system text in the system field
C30_Witness ==
  /\ Returned("requestBody")
  /\ call.providerId = "gemini"
  /\ [i \in 1..Len(call.messages) |-> call.messages[i].role]
       = <<"user", "system", "assistant">>
  /\ call.result[1].messages
       = << [role |-> "user", content |-> TextOfLength(1)],
            [role |-> "model", content |-> TextOfLength(3)] >>
  /\ call.result[1].system = Some(TextOfLength(2))

\* ------------------------------------------------------------------------
\* Properties of the model catalogue
\* ------------------------------------------------------------------------
EndsWith(text, suffix) ==
  /\ Len(suffix) <= Len(text)
  /\ SubSeq(text, Len(text) - Len(suffix) + 1, Len(text)) = suffix

\* C27: when a model-catalogue request ends with a non-success HTTP
\* status, the error fetchModels throws carries the vendor's status text,
\* and loadModels surfaces that error, leaves the model list empty and
\* clears the loading flag.
C27_CatalogFailureSurfaced ==
  [][\A q \in ModelRequestIds :
       (ModelFetching(q) /\ modelRequests'[q].outcome = "httpError") =>
         /\ modelRequests'[q].statusText # None
         /\ error' # None
         /\ EndsWith(error'[1], modelRequests'[q].statusText[1])
         /\ error'[1] = LoadModelsErrorPrefix
                          \o ModelsErrorPrefix(modelRequests[q].providerId)
                          \o modelRequests'[q].statusText[1]
         /\ models' = <<>>
         /\ loadingModels' = FALSE]_vars

\* a catalogue was loaded and shown, then the request of another provider
\* ended "Unauthorized": the error is shown and the list is empty
C27_Witness ==
  /\ Len(modelRequests) = 2
  /\ modelRequests[1].outcome = "ok"
  /\ modelRequests[2].outcome = "httpError"
  /\ modelRequests[2].statusText = Some(<<"U","n","a","u","t","h","o","r","i","z","e","d">>)
  /\ error # None
  /\ EndsWith(error[1], <<"U","n","a","u","t","h","o","r","i","z","e","d">>)
  /\ models = <<>>
  /\ ~loadingModels

\* ------------------------------------------------------------------------
\* Properties of the stream decoding
\* ------------------------------------------------------------------------
RECURSIVE TokenTexts(_)
\* the texts of the token lines of a chunk, joined in the order of the lines
TokenTexts(lines) ==
  IF lines = <<>> THEN <<>>
  ELSE (IF Head(lines).type = "token" THEN Head(lines).text ELSE <<>>)
         \o TokenTexts(Tail(lines))

HasInvalidLine(lines) == \E i \in 1..Len(lines) : lines[i].type = "invalid"

\* the request took the next chunk of its response body in this step
ReadsChunk(r) ==
  /\ Reading(r)
  /\ requests'[r].reads = requests[r].reads + 1

\* C28: a data line whose payload is not valid JSON is skipped without
\* calling onError and without ending the stream, and the token lines
\* before and after it are all delivered through onToken, in order.
C28_MalformedLineSkipped ==
  [][\A r \in RequestIds :
       (ReadsChunk(r) /\ HasInvalidLine(Chunk(requests'[r].reads))) =>
         /\ requests'[r].nError = requests[r].nError
         /\ requests'[r].nComplete = requests[r].nComplete
         /\ requests'[r].phase = "read"
         /\ requests'[r].delivered =
              requests[r].delivered \o TokenTexts(Chunk(requests'[r].reads))
         /\ requests'[r].adapterFullResponse =
              requests[r].adapterFullResponse
                \o TokenTexts(Chunk(requests'[r].reads))]_vars

\* a stream whose second chunk starts with a malformed line was read: the
\* token before it and the token after it were delivered, no onError
C28_Witness ==
  \E r \in RequestIds :
    /\ Reading(r)
    /\ requests[r].reads = 2
    /\ HasInvalidLine(Chunk(2))
    /\ Chunk(2)[1].type = "invalid"
    /\ requests[r].delivered = Hel \o lo
    /\ requests[r].nError = 0

RECURSIVE LinesRead(_)
\* the lines of the first n chunks of the response body
LinesRead(n) == IF n = 0 THEN <<>> ELSE LinesRead(n - 1) \o Chunk(n)

\* the lines that precede the first sentinel line
UpToSentinel(lines) ==
  LET done == {i \in 1..Len(lines) : lines[i].type = "done"}
  IN  IF done = {} THEN lines
      ELSE SubSeq(lines, 1, (CHOOSE i \in done : \A j \in done : i <= j) - 1)

OpenAICompatible == {"openai", "xai", "groq", "openrouter"}

\* C29: for the OpenAI-compatible adapters the sentinel line ends the
\* stream: the text delivered through onToken is that of the token lines
\* read before the sentinel, no line after it produces an onToken call,
\* and onComplete receives the text accumulated up to the sentinel.
C29_SentinelEndsStream ==
  [][\A r \in RequestIds :
       (Reading(r) /\ requests[r].providerId \in OpenAICompatible) =>
         /\ ReadsChunk(r) =>
              requests'[r].delivered =
                TokenTexts(UpToSentinel(LinesRead(requests'[r].reads)))
         /\ requests'[r].outcome = "complete" =>
              requests'[r].completedWith =
                Some(TokenTexts(UpToSentinel(LinesRead(requests[r].reads))))]_vars

\* C31: token decoding does not depend on how the network splits the
\* response into reads: every partition of the body into chunks yields
\* the onToken calls and the onComplete text of the body read as one chunk.
C31_DecodingIndependentOfSplit ==
  (call.fn = "streamChat" /\ call.result # None) =>
    /\ call.tokens = tokensOf(linesOf(VendorStream))
    /\ call.result = Some(join(tokensOf(linesOf(VendorStream))))

\* ------------------------------------------------------------------------
\* Properties of the page state
\* ------------------------------------------------------------------------
\* the requests in flight for which Stop has not been invoked
Live == {r \in RequestIds : InFlight(r) /\ ~requests[r].aborted}

\* C32: the in-flight markers track the in-flight request: while a request
\* is in flight and has not been stopped, isLoading is true and
\* streamingMessageId is the id of its placeholder, a message of the
\* displayed conversation; when no request is in flight, isLoading is
\* false and streamingMessageId is unset.
C32_MarkersTrackInFlight ==
  /\ \A r \in Live :
       /\ isLoading
       /\ streamingMessageId = Some(requests[r].placeholderId)
       /\ requests[r].placeholderId \in DisplayedMessageIds
  /\ (\A r \in RequestIds : ~InFlight(r)) =>
       (~isLoading /\ streamingMessageId = None)

\* C33: the orchestrator always returns to Idle: when every vendor
\* response eventually ends, fails or is cancelled, every state with
\* isLoading true is eventually followed by a state with isLoading false
\* and streamingMessageId unset.
C33_ReturnsToIdle ==
  isLoading ~> (~isLoading /\ streamingMessageId = None)

\* a Send, a Continue and a Retry have each ended, on an error path and on
\* the success path, and the page is idle again
C33_Witness ==
  /\ ~isLoading
  /\ streamingMessageId = None
  /\ \A r \in RequestIds : ~InFlight(r)
  /\ \E r \in RequestIds : requests[r].kind = "continue"
  /\ \E r \in RequestIds : requests[r].outcome = "complete"
  /\ \E r \in RequestIds : requests[r].outcome = "httpError"

\* C34: when a request issued by Send or Retry is stopped before the
\* vendor's response has arrived, it ends without surfacing an error and
\* without onComplete or onError: the placeholder stays in the request's
\* conversation, displayed and persisted, with empty content and no
\* tokenCount or timing, totalCost and sessionCost are unchanged, and
\* isLoading and streamingMessageId are cleared.
C34_StopBeforeResponse ==
  [][\A r \in RequestIds :
       (Settles(r, {"fetchCancelled"}) /\ requests[r].kind \in {"send", "retry"}) =>
         LET req == requests[r]
             stored == StoredOf(conversations', req.conversationId)
         IN  /\ error' = error
             /\ systemPromptWarningOpen' = systemPromptWarningOpen
             /\ requests'[r].nComplete = 0 /\ requests'[r].nError = 0
             /\ requests'[r].delivered = <<>>
             /\ conversation' = conversation
             /\ conversations' = conversations
             /\ sessionCost' = sessionCost
             /\ ~isLoading' /\ streamingMessageId' = None
             /\ getConversation(conversations', req.conversationId) # None
             /\ findIndex(stored.messages, req.placeholderId) > 0
             /\ IsEmptyPlaceholder(MessageOf(stored, req.placeholderId),
                                   req.placeholderId)
             /\ conversation'.id = req.conversationId =>
                  /\ Displays(conversation', req.placeholderId)
                  /\ IsEmptyPlaceholder(
                       MessageOf(conversation', req.placeholderId),
                       req.placeholderId)]_vars

\* a Retry was stopped while its fetch was pending: no callback ran, no
\* error is shown, the page is idle
C34_Witness ==
  \E r \in RequestIds :
    /\ requests[r].kind = "retry"
    /\ requests[r].outcome = "fetchCancelled"
    /\ requests[r].nComplete = 0 /\ requests[r].nError = 0
    /\ error = None
    /\ ~isLoading /\ streamingMessageId = None
    /\ Displays(conversation, requests[r].placeholderId)
    /\ IsEmptyPlaceholder(MessageOf(conversation, requests[r].placeholderId),
                          requests[r].placeholderId)

\* C35: whenever no request is in flight, the persisted record of the
\* displayed conversation equals the in-memory conversation: same
\* messages, totalCost, disableSystemPrompt and pinned.
C35_PersistedEqualsDisplayed ==
  (/\ \A r \in RequestIds : ~InFlight(r)
   /\ conversation # NoConversation
   /\ getConversation(conversations, conversation.id) # None) =>
    LET stored == StoredOf(conversations, conversation.id)
    IN  /\ stored.messages = conversation.messages
        /\ stored.totalCost = conversation.totalCost
        /\ stored.disableSystemPrompt = conversation.disableSystemPrompt
        /\ stored.pinned = conversation.pinned

\* C36: in every reachable state the session cost shown equals the
\* displayed conversation's totalCost, 0 when there is no conversation.
C36_SessionCostIsTotalCost ==
  sessionCost = IF conversation = NoConversation THEN 0
                ELSE conversation.totalCost

\* two requests were finalized in the displayed conversation: the session
\* cost and the conversation's totalCost both hold the sum of their costs
C36_Witness ==
  /\ conversation # NoConversation
  /\ Cardinality({r \in RequestIds : requests[r].nComplete = 1
                                      /\ requests[r].delivered # <<>>}) = 2
  /\ sessionCost > 0
  /\ sessionCost = conversation.totalCost

\* C37: every key of a vendor's static pricing table is reachable:
\* estimateCost called with a model id equal to a key of the adapter's
\* table uses the prices declared for that key.
C37_EveryKeyPricedAtItsEntry ==
  (Returned("estimateCost") /\ call.providerId \in TableProviders) =>
    \A i \in 1..Len(TableOf(call.providerId)) :
      TableOf(call.providerId)[i].key = call.modelId =>
        call.result = Some(CostAt(call.inputTokens, call.outputTokens,
                                  TableOf(call.providerId)[i]))

RECURSIVE HeuristicTokens(_)
\* the sum over the messages of ceil(length(content) / 4) plus 1000 per
\* attachment
HeuristicTokens(msgs) ==
  IF msgs = <<>> THEN 0
  ELSE (Len(Head(msgs).content) + 3) \div 4 + 1000 * Head(msgs).attachments
         + HeuristicTokens(Tail(msgs))

\* C38: in Send, Retry and Continue alike, the input token count used for
\* a request's cost is the sum over the outbound messages of
\* ceil(length(content) / 4) + 1000 * (attachments of the message): the
\* cost added at onComplete is estimateCost of that count.
C38_InputTokensOfOutboundList ==
  [][\A r \in RequestIds :
       requests'[r].nComplete = requests[r].nComplete + 1 =>
         sessionCost' - sessionCost =
           estimateCost(requests[r].providerId,
                        HeuristicTokens(requests[r].apiMessages),
                        estimateTokens(requests'[r].completedWith[1], 0),
                        requests[r].model)]_vars

\* C39: once no model-catalogue fetch is pending, the model list shown
\* belongs to the currently selected provider, the selected model is one
\* of that list or unset, and the loading flag is clear: the late result
\* of an earlier fetchModels call never overwrites the newer selection.
C39_CatalogOfSelectedProvider ==
  (\A q \in ModelRequestIds : ~ModelFetching(q)) =>
    /\ models = <<>> \/ models = fetchModels(selectedProvider)
    /\ selectedModel = <<>> \/ selectedModel \in CatalogIds(selectedProvider)
    /\ ~loadingModels

\* ------------------------------------------------------------------------
\* Properties of the chat groups
\* ------------------------------------------------------------------------
\* C40: group membership changes made in the store are never undone by
\* the orchestrator: a step that issues a request, delivers a token or
\* finalizes leaves the persisted groupId of every stored conversation as
\* it was, and every persisted conversation with a groupId refers to an
\* existing group.
C40_GroupMembershipKept ==
  [][/\ requests' # requests =>
          \A i \in 1..Len(conversations) :
            getConversation(conversations', conversations[i].id) # None
              /\ StoredOf(conversations', conversations[i].id).groupId
                    = conversations[i].groupId
     /\ \A i \in 1..Len(conversations') :
          conversations'[i].groupId # None =>
            conversations'[i].groupId[1] \in groups']_vars

====
